---- MODULE Spec2Model ----
(***************************************************************************)
(* The item-master CSV import of dkse-erp                                  *)
(* (src/src/components/csv/ItemMasterCSVUpload.tsx) as a state machine:    *)
(* the component's React state, the asynchronous work it starts (file      *)
(* reads, conflict detection, apply) and the datastore tables it writes.   *)
(*                                                                         *)
(* Every handler runs to its next await in one step.  A remote call        *)
(* returns a value ("ok"), returns an error object ("error") or throws     *)
(* ("throw"); the choice is nondeterministic.  A handler works on the      *)
(* state of the render that created it, so a running detection or apply    *)
(* carries the values it captured when it started.                         *)
(***************************************************************************)
EXTENDS Integers, Sequences, FiniteSets, TLC

VARIABLES
  file,               \* useState<File | null>
  csvData,            \* useState<CSVData | null>
  isProcessing,       \* useState(false)
  progress,           \* useState(0)
  validationErrors,   \* useState<ValidationError[]>([])
  conflicts,          \* useState<ConflictItem[]>([])
  showConflictDialog, \* useState(false)
  uploadResult,       \* useState<{success, errors, total} | null>
  readers,            \* FileReaders whose onload has not fired yet
  detections,         \* checkForConflicts calls in flight
  applies,            \* executeUpload calls in flight
  item_master,        \* datastore table item_master
  stock,              \* datastore table stock
  csv_upload_log,     \* datastore table csv_upload_log: the number of its records
  lastToast,          \* title of the last toast shown
  detectDone,         \* history: conflict detection of the csvData in state has finished
  picks,              \* history: .csv files picked so far
  faults,             \* history: remote calls that failed so far
  grn_log,            \* datastore table grn_log
  issue_log,          \* datastore table issue_log
  today,              \* CURRENT_DATE of the datastore, as a day number
  jobs,               \* item creations and opening-stock imports in flight
  categories_table,   \* datastore table categories
  integrations,       \* IntegrationSettings: useState([...])
  loading,            \* IntegrationSettings: useState(false)
  settingsToast       \* IntegrationSettings: title and description of its last toast

vars == <<file, csvData, isProcessing, progress, validationErrors, conflicts,
          showConflictDialog, uploadResult, readers, detections, applies,
          item_master, stock, csv_upload_log, lastToast, detectDone, picks, faults,
          grn_log, issue_log, today, jobs, categories_table,
          integrations, loading, settingsToast>>

\* what the stock pages work on and the upload component never touches
ledger == <<grn_log, issue_log, today, jobs, categories_table>>

\* the state of the integration settings panel
settings == <<integrations, loading, settingsToast>>

ui == <<file, csvData, isProcessing, progress, validationErrors, conflicts,
        showConflictDialog, uploadResult>>

db == <<item_master, stock, csv_upload_log>>

\* the upload component, which the stock pages never touch
importer == <<ui, readers, detections, applies, csv_upload_log, lastToast,
              detectDone, picks>>

(***************************************************************************)
(* Bounds of the model.                                                    *)
(***************************************************************************)
MaxReaders == 2     \* file reads pending at once
MaxDetections == 2  \* conflict detections in flight at once
MaxApplies == 2     \* executeUpload calls in flight at once
MaxItems == 12      \* item_master records the datastore holds
MaxLog == 1         \* csv_upload_log records the datastore holds
MaxPicks == 2       \* .csv files picked in a run
MaxFaults == 1      \* remote calls that fail in a run

(***************************************************************************)
(* JavaScript values.                                                      *)
(***************************************************************************)
NULL == <<>>              \* null, for object-valued state
UNDEF == "<undefined>"    \* a property the object does not have
DbNull == "<null>"        \* null written to a column

Truthy(v) == v \notin {"", UNDEF, DbNull}

\* String.prototype.toLowerCase on the strings the files and categories use.
LowerTable ==
  [s \in {"Raw Materials", "RAW MATERIALS", "Finished Goods", "Active",
          "ACTIVE", "Inactive", "Item_Name", "UOM", "Category_Name",
          "Packaging", "PACKAGING"} |->
     CASE s = "Raw Materials" -> "raw materials"
       [] s = "RAW MATERIALS" -> "raw materials"
       [] s = "Finished Goods" -> "finished goods"
       [] s = "Active" -> "active"
       [] s = "ACTIVE" -> "active"
       [] s = "Inactive" -> "inactive"
       [] s = "Item_Name" -> "item_name"
       [] s = "UOM" -> "uom"
       [] s = "Category_Name" -> "category_name"
       [] s = "Packaging" -> "packaging"
       [] s = "PACKAGING" -> "packaging"]

toLowerCase(s) == IF s \in DOMAIN LowerTable THEN LowerTable[s] ELSE s

\* parseFloat on the gsm cells the files use; a number is kept as its
\* canonical decimal text, "NaN" is not a number.
parseFloat(s) ==
  CASE s = "80" -> "80"
    [] s = "80.0" -> "80"
    [] s = "150" -> "150"
    [] OTHER -> "NaN"

isNaN(n) == n = "NaN"

\* Math.round(x / y * 100) for naturals x, y > 0 (halves round up).
RoundPercent(x, y) == (200 * x + y) \div (2 * y)

(***************************************************************************)
(* The component's props and constants.                                    *)
(***************************************************************************)
categories ==
  << [id |-> "cat-1", category_name |-> "Raw Materials"],
     [id |-> "cat-2", category_name |-> "Finished Goods"] >>

requiredHeaders == <<"item_name", "category_name", "uom">>

batchSize == 10

\* The external rpc generate_item_code: a pure function of its arguments.
generate_item_code(category_name, qualifier, size_mm, gsm) ==
  <<category_name, qualifier, size_mm, gsm>>

(***************************************************************************)
(* The files the user can pick.  A file is its name and its text, the      *)
(* text as the list of its non-blank lines, each line as its cells.        *)
(***************************************************************************)
AllHeaders ==
  <<"item_name", "category_name", "uom", "qualifier", "gsm", "size_mm",
    "usage_type", "status">>

\* two rows deriving the code of the record the datastore already holds
FileConflicts ==
  [name |-> "conflicts.csv",
   lines |-> << AllHeaders,
     <<"Kraft Roll", "raw materials", "KG", "PREMIUM", "80", "", "Production", "Active">>,
     <<"Kraft Sheet", "Raw Materials", "KG", "PREMIUM", "80.0", "", "", "">> >>]

\* one new item and one row deriving the existing code
FileMixed ==
  [name |-> "mixed.csv",
   lines |-> << <<"Item_Name", "Category_Name", "UOM", "qualifier", "gsm">>,
     <<"Carton Box", "Finished Goods", "PCS", "", "">>,
     <<"Kraft Reel", "RAW MATERIALS", "KG", "PREMIUM", "80">> >>]

\* rows that fail validation; the second has an existing category
FileInvalid ==
  [name |-> "invalid.csv",
   lines |-> << AllHeaders,
     <<"", "Raw Materials", "PCS", "", "", "", "", "">>,
     <<"Glue", "Finished Goods", "KG", "", "abc", "", "", "archived">> >>]

\* the required header uom is missing
FileNoUom ==
  [name |-> "nouom.csv",
   lines |-> << <<"item_name", "category_name">>,
     <<"Label", "Finished Goods">> >>]

\* no non-blank line
FileEmpty == [name |-> "empty.csv", lines |-> << >>]

\* not a .csv file
FileText == [name |-> "notes.txt", lines |-> << <<"hello">> >>]

\* twelve new items; the category of the seventh is not among the categories
BatchNames ==
  <<"Item 01", "Item 02", "Item 03", "Item 04", "Item 05", "Item 06",
    "Item 07", "Item 08", "Item 09", "Item 10", "Item 11", "Item 12">>

BatchQualifiers ==
  <<"Q01", "Q02", "Q03", "Q04", "Q05", "Q06", "Q07", "Q08", "Q09", "Q10", "Q11", "Q12">>

FileBatch ==
  [name |-> "batch.csv",
   lines |-> << <<"item_name", "category_name", "uom", "qualifier">> >> \o
             [i \in 1..12 |->
                <<BatchNames[i], IF i = 7 THEN "Packaging" ELSE "Finished Goods",
                  "PCS", BatchQualifiers[i]>>]]

\* two rows deriving the same code, which no record has
FileTwins ==
  [name |-> "twins.csv",
   lines |-> << AllHeaders,
     <<"Tape A", "Finished Goods", "PCS", "", "", "48", "", "">>,
     <<"Tape B", "Finished Goods", "PCS", "", "", "48", "", "">> >>]

Files == {FileConflicts, FileMixed, FileInvalid, FileNoUom, FileEmpty, FileText}

EndsWithCsv(name) ==
  name \in {"conflicts.csv", "mixed.csv", "invalid.csv", "nouom.csv", "empty.csv",
            "batch.csv", "twins.csv", "rows.csv"}

(***************************************************************************)
(* Pure functions of the component.                                        *)
(***************************************************************************)
Get(obj, k) == IF k \in DOMAIN obj THEN obj[k] ELSE UNDEF

Or(v, d) == IF Truthy(v) THEN v ELSE d

RECURSIVE Flatten(_)
Flatten(ss) == IF ss = <<>> THEN <<>> ELSE Head(ss) \o Flatten(Tail(ss))

RemoveAt(s, n) == [i \in 1..(Len(s) - 1) |-> IF i < n THEN s[i] ELSE s[i + 1]]

ParseFails(f) == Len(f.lines) = 0

parseCSV(f) == [headers |-> f.lines[1], rows |-> Tail(f.lines)]

\* required headers no header of the file equals, ignoring case
MissingHeaders(csv) ==
  LET Missing(header) ==
        ~\E i \in 1..Len(csv.headers) :
           toLowerCase(csv.headers[i]) = toLowerCase(header)
  IN SelectSeq(requiredHeaders, Missing)

\* obj[header.toLowerCase()] = row[index] || '' for every header, in order
ToObject(headers, row) ==
  LET keys == {toLowerCase(headers[i]) : i \in 1..Len(headers)}
      last(k) == CHOOSE i \in 1..Len(headers) :
                   /\ toLowerCase(headers[i]) = k
                   /\ \A j \in 1..Len(headers) : toLowerCase(headers[j]) = k => j <= i
  IN [k \in keys |-> IF last(k) <= Len(row) THEN row[last(k)] ELSE ""]

DataObjects(csv) ==
  [i \in 1..Len(csv.rows) |-> ToObject(csv.headers, csv.rows[i])]

\* categories.find(cat => cat.category_name.toLowerCase() === name?.toLowerCase())
FindCategory(name) ==
  LET hits == {i \in 1..Len(categories) :
                 name # UNDEF /\
                 toLowerCase(categories[i].category_name) = toLowerCase(name)}
  IN IF hits = {} THEN NULL
     ELSE categories[CHOOSE i \in hits : \A j \in hits : i <= j]

\* faulty variant of the row validation: it returns at the first violated rule
validateRowFirstOnly(rowData, rowIndex) ==
  LET Err(field, message) ==
        <<[row |-> rowIndex + 2, field |-> field, message |-> message, data |-> rowData]>>
      item_name == Get(rowData, "item_name")
      category_name == Get(rowData, "category_name")
      uom == Get(rowData, "uom")
      gsm == Get(rowData, "gsm")
      status == Get(rowData, "status")
  IN IF ~Truthy(item_name) THEN Err("item_name", <<"Item name is required">>)
     ELSE IF ~Truthy(category_name)
       THEN Err("category_name", <<"Category name is required">>)
     ELSE IF FindCategory(category_name) = NULL
       THEN Err("category_name", <<"Category does not exist", category_name>>)
     ELSE IF ~Truthy(uom) THEN Err("uom", <<"UOM is required">>)
     ELSE IF Truthy(gsm) /\ isNaN(parseFloat(gsm))
       THEN Err("gsm", <<"GSM must be a valid number">>)
     ELSE IF Truthy(status) /\ toLowerCase(status) \notin {"active", "inactive"}
       THEN Err("status", <<"Status must be either active or inactive">>)
     ELSE <<>>

\* validateRow(rowData, rowIndex), rowIndex counted from 0
validateRow(rowData, rowIndex) ==
  LET Err(field, message) ==
        <<[row |-> rowIndex + 2, field |-> field, message |-> message, data |-> rowData]>>
      item_name == Get(rowData, "item_name")
      category_name == Get(rowData, "category_name")
      uom == Get(rowData, "uom")
      gsm == Get(rowData, "gsm")
      status == Get(rowData, "status")
      e1 == IF ~Truthy(item_name) THEN Err("item_name", <<"Item name is required">>) ELSE <<>>
      e2 == IF ~Truthy(category_name)
              THEN Err("category_name", <<"Category name is required">>)
              ELSE IF FindCategory(category_name) = NULL
                     THEN Err("category_name", <<"Category does not exist", category_name>>)
                     ELSE <<>>
      e3 == IF ~Truthy(uom) THEN Err("uom", <<"UOM is required">>) ELSE <<>>
      e4 == IF Truthy(gsm) /\ isNaN(parseFloat(gsm))
              THEN Err("gsm", <<"GSM must be a valid number">>) ELSE <<>>
      e5 == IF Truthy(status) /\ toLowerCase(status) \notin {"active", "inactive"}
              THEN Err("status", <<"Status must be either active or inactive">>) ELSE <<>>
  IN e1 \o e2 \o e3 \o e4 \o e5

\* the forEach of handleFileChange that collects every row's errors
ValidateAll(dataObjects) ==
  Flatten([i \in 1..Len(dataObjects) |-> validateRow(dataObjects[i], i - 1)])

\* the arguments both rpc calls pass to generate_item_code
ItemCodeOf(category, row) ==
  generate_item_code(category.category_name,
                     Or(Get(row, "qualifier"), ""),
                     Or(Get(row, "size_mm"), ""),
                     IF Truthy(Get(row, "gsm")) THEN parseFloat(Get(row, "gsm")) ELSE DbNull)

\* conflicts.find(c => c.row === row)
FindConflict(cs, row) ==
  LET hits == {i \in 1..Len(cs) : cs[i].row = row}
  IN IF hits = {} THEN NULL ELSE cs[CHOOSE i \in hits : \A j \in hits : i <= j]

\* faulty variant of the row numbering: the header line is not counted
IndexedObjectsNoHeaderOffset(csv) ==
  [i \in 1..Len(csv.rows) |->
     LET obj == ToObject(csv.headers, csv.rows[i])
     IN [k \in DOMAIN obj \cup {"originalRowIndex"} |->
           IF k = "originalRowIndex" THEN i ELSE obj[k]]]

\* dataObjects of executeUpload: each row with originalRowIndex = index + 2
IndexedObjects(csv) ==
  [i \in 1..Len(csv.rows) |->
     LET obj == ToObject(csv.headers, csv.rows[i])
     IN [k \in DOMAIN obj \cup {"originalRowIndex"} |->
           IF k = "originalRowIndex" THEN i + 1 ELSE obj[k]]]

\* faulty variants of the filter: it keeps every row; it drops every conflicting row
ItemsToProcessKeepsSkipped(dataObjects, cs) == dataObjects

ItemsToProcessDropsConflicts(dataObjects, cs) ==
  LET Keep(item) == FindConflict(cs, item["originalRowIndex"]) = NULL
  IN SelectSeq(dataObjects, Keep)

\* the filter of executeUpload: rows whose conflict says skip are dropped
ItemsToProcess(dataObjects, cs) ==
  LET Keep(item) ==
        LET conflict == FindConflict(cs, item["originalRowIndex"])
        IN conflict = NULL \/ conflict.action # "skip"
  IN SelectSeq(dataObjects, Keep)

(***************************************************************************)
(* The datastore.                                                          *)
(***************************************************************************)
Outcomes == {"ok", "error", "throw"}

\* a remote call may fail while the run's budget of failures lasts
Cost(outcome) == IF outcome = "ok" THEN 0 ELSE 1

Spend(cost) == faults + cost <= MaxFaults /\ faults' = faults + cost

ExistingCode == generate_item_code("Raw Materials", "PREMIUM", "", "80")

InitialItems ==
  << [item_code |-> ExistingCode, item_name |-> "Kraft Liner",
      category_id |-> "cat-1", qualifier |-> "PREMIUM", gsm |-> "80",
      size_mm |-> DbNull, uom |-> "KG", usage_type |-> DbNull,
      status |-> "active", auto_code |-> ExistingCode] >>

InitialStock ==
  << [item_code |-> ExistingCode, opening_qty |-> 0, current_qty |-> 0] >>

\* item_code is the unique key of item_master and of stock: the datastore
\* rejects the insert of a code the table already holds
NoUniqueKey(table, code) == FALSE

UniqueViolation(table, code) == \E i \in 1..Len(table) : table[i].item_code = code

\* a column value: a property that is undefined is not sent and stays null
Col(v) == IF v = UNDEF THEN DbNull ELSE v

OrNull(v) == IF Truthy(v) THEN v ELSE DbNull

\* the record .insert({...}) of executeUpload writes
InsertedItem(item, category, itemCode) ==
  [item_code |-> itemCode,
   item_name |-> Col(Get(item, "item_name")),
   category_id |-> category.id,
   qualifier |-> OrNull(Get(item, "qualifier")),
   gsm |-> IF Truthy(Get(item, "gsm")) THEN parseFloat(Get(item, "gsm")) ELSE DbNull,
   size_mm |-> OrNull(Get(item, "size_mm")),
   uom |-> Col(Get(item, "uom")),
   usage_type |-> OrNull(Get(item, "usage_type")),
   status |-> Or(Get(item, "status"), "active"),
   auto_code |-> itemCode]

\* what .update({...}) of executeUpload makes of one record
UpdatedItem(old, item, category) ==
  [old EXCEPT
     !.item_name = IF Get(item, "item_name") = UNDEF THEN @ ELSE Get(item, "item_name"),
     !.category_id = category.id,
     !.qualifier = OrNull(Get(item, "qualifier")),
     !.gsm = IF Truthy(Get(item, "gsm")) THEN parseFloat(Get(item, "gsm")) ELSE DbNull,
     !.size_mm = OrNull(Get(item, "size_mm")),
     !.uom = IF Get(item, "uom") = UNDEF THEN @ ELSE Get(item, "uom"),
     !.usage_type = OrNull(Get(item, "usage_type")),
     !.status = Or(Get(item, "status"), "active")]

\* faulty variant of the update: the .eq filter is lost
UpdateEveryRecord(table, item, category, itemCode) ==
  [i \in 1..Len(table) |-> UpdatedItem(table[i], item, category)]

\* .update({...}).eq('item_code', itemCode)
UpdateWhereCode(table, item, category, itemCode) ==
  [i \in 1..Len(table) |->
     IF table[i].item_code = itemCode
       THEN UpdatedItem(table[i], item, category)
       ELSE table[i]]

\* .select(...).eq('item_code', code).single(): a row only if exactly one matches
SingleByCode(table, code) ==
  LET hits == {i \in 1..Len(table) : table[i].item_code = code}
  IN IF Cardinality(hits) = 1 THEN table[CHOOSE i \in hits : TRUE] ELSE NULL

\* useState([...]) of IntegrationSettings
InitialIntegrations ==
  << [name |-> "OpenAI", enabled |-> FALSE, configured |-> FALSE, apiKey |-> "",
      testConnection |-> FALSE],
     [name |-> "Email Service", enabled |-> FALSE, configured |-> FALSE, apiKey |-> "",
      testConnection |-> FALSE] >>

(***************************************************************************)
(* Initial state: the component as constructed, one item in the datastore. *)
(***************************************************************************)
Init ==
  /\ file = NULL
  /\ csvData = NULL
  /\ isProcessing = FALSE
  /\ progress = 0
  /\ validationErrors = <<>>
  /\ conflicts = <<>>
  /\ showConflictDialog = FALSE
  /\ uploadResult = NULL
  /\ readers = {}
  /\ detections = <<>>
  /\ applies = <<>>
  /\ item_master = InitialItems
  /\ stock = InitialStock
  /\ csv_upload_log = 0
  /\ lastToast = "none"
  /\ detectDone = FALSE
  /\ picks = 0
  /\ faults = 0
  /\ grn_log = <<>>
  /\ issue_log = <<>>
  /\ today = 0
  /\ jobs = <<>>
  /\ categories_table = categories
  /\ integrations = InitialIntegrations
  /\ loading = FALSE
  /\ settingsToast = <<"none">>

(***************************************************************************)
(* What the render shows.  The conflict dialog is modal: while it is open  *)
(* only its own controls take input.                                       *)
(***************************************************************************)
FileInputShown == uploadResult = NULL /\ ~showConflictDialog

UploadPanelShown ==
  uploadResult = NULL /\ csvData # NULL /\ validationErrors = <<>> /\ ~showConflictDialog

ResetShown == (UploadPanelShown \/ uploadResult # NULL) /\ ~showConflictDialog

\* detections in flight no longer belong to the csvData in state
Outdated(ds) == [i \in 1..Len(ds) |-> [ds[i] EXCEPT !.current = FALSE]]

(***************************************************************************)
(* handleFileChange up to reader.readAsText.                               *)
(***************************************************************************)
HandleFileChange(f) ==
  /\ UNCHANGED <<ledger, settings>>
  /\ FileInputShown
  /\ IF ~EndsWithCsv(f.name)
       THEN /\ lastToast' = "Invalid file type"
            /\ UNCHANGED <<ui, readers, detections, applies, db, detectDone, picks, faults>>
       ELSE /\ Cardinality(readers) < MaxReaders
            /\ picks < MaxPicks
            /\ picks' = picks + 1
            /\ file' = [name |-> f.name]
            /\ uploadResult' = NULL
            /\ validationErrors' = <<>>
            /\ conflicts' = <<>>
            /\ readers' = readers \cup {f}
            /\ UNCHANGED <<csvData, isProcessing, progress, showConflictDialog,
                           detections, applies, db, lastToast, detectDone, faults>>

(***************************************************************************)
(* reader.onload: parse, header check, row validation, start of conflict   *)
(* detection.                                                              *)
(***************************************************************************)
ReaderOnload(f) ==
  /\ UNCHANGED <<ledger, settings>>
  /\ f \in readers
  /\ readers' = readers \ {f}
  /\ UNCHANGED <<file, isProcessing, progress, showConflictDialog, uploadResult,
                 applies, db, picks, faults>>
  /\ IF ParseFails(f)
       THEN /\ lastToast' = "Error parsing CSV"
            /\ UNCHANGED <<csvData, validationErrors, conflicts, detections, detectDone>>
       ELSE LET csv == parseCSV(f)
                dataObjects == DataObjects(csv)
                allErrors == ValidateAll(dataObjects)
            IN /\ csvData' = csv
               /\ IF MissingHeaders(csv) # <<>>
                    THEN /\ lastToast' = "Missing required columns"
                         /\ detections' = Outdated(detections)
                         /\ detectDone' = FALSE
                         /\ UNCHANGED <<validationErrors, conflicts>>
                    ELSE /\ validationErrors' = allErrors
                         /\ UNCHANGED lastToast
                         /\ IF allErrors # <<>>
                              THEN /\ detections' = Outdated(detections)
                                   /\ detectDone' = FALSE
                                   /\ UNCHANGED conflicts
                              ELSE IF Len(dataObjects) = 0
                                THEN /\ conflicts' = <<>>
                                     /\ detections' = Outdated(detections)
                                     /\ detectDone' = TRUE
                                ELSE /\ Len(detections) < MaxDetections
                                     /\ detections' =
                                          Append(Outdated(detections),
                                                 [data |-> dataObjects, i |-> 1,
                                                  found |-> <<>>, current |-> TRUE])
                                     /\ detectDone' = FALSE
                                     /\ UNCHANGED conflicts

(***************************************************************************)
(* checkForConflicts: one iteration of its loop; after the last one the    *)
(* awaiting onload calls setConflicts.                                     *)
(***************************************************************************)
CheckRow(t, rpc, sel) ==
  LET row == t.data[t.i]
      category == FindCategory(Get(row, "category_name"))
      generatedCode == ItemCodeOf(category, row)
      existingItem == SingleByCode(item_master, generatedCode)
  IN IF category # NULL /\ rpc = "ok" /\ sel = "ok" /\ existingItem # NULL
       THEN Append(t.found,
                   [row |-> (t.i - 1) + 2, item_code |-> generatedCode,
                    action |-> "skip",
                    data |-> [k \in DOMAIN row \cup {"generated_code"} |->
                                IF k = "generated_code" THEN generatedCode ELSE row[k]]])
       ELSE t.found

CheckForConflicts(n) ==
  /\ UNCHANGED <<ledger, settings>>
  /\ n \in 1..Len(detections)
  /\ \E rpc \in Outcomes, sel \in Outcomes :
       LET t == detections[n]
           found == CheckRow(t, rpc, sel)
       IN /\ (rpc # "ok") => sel = "ok"
          /\ Spend(Cost(rpc) + Cost(sel))
          /\ IF t.i < Len(t.data)
               THEN /\ detections' = [detections EXCEPT ![n].i = t.i + 1, ![n].found = found]
                    /\ UNCHANGED <<conflicts, detectDone>>
               ELSE /\ detections' = RemoveAt(detections, n)
                    /\ conflicts' = found
                    /\ detectDone' = (detectDone \/ t.current)
  /\ UNCHANGED <<file, csvData, isProcessing, progress, validationErrors,
                 showConflictDialog, uploadResult, readers, applies, db, lastToast, picks>>

(***************************************************************************)
(* executeUpload up to its first await: the state it captures.             *)
(***************************************************************************)
NewApply ==
  LET dataObjects == IndexedObjects(csvData)
  IN [csvData |-> csvData, file |-> file, conflicts |-> conflicts,
      dataObjects |-> dataObjects,
      itemsToProcess |-> ItemsToProcess(dataObjects, conflicts),
      k |-> 0, pc |-> "row", itemCode |-> NULL,
      totalSuccess |-> 0, allErrors |-> <<>>,
      detected |-> detectDone]

ExecuteUpload ==
  IF csvData = NULL \/ file = NULL
    THEN UNCHANGED vars
    ELSE /\ Len(applies) < MaxApplies
         /\ UNCHANGED <<ledger, settings>>
         /\ isProcessing' = TRUE
         /\ progress' = 0
         /\ showConflictDialog' = FALSE
         /\ applies' = Append(applies, NewApply)
         /\ UNCHANGED <<file, csvData, validationErrors, conflicts, uploadResult,
                        readers, detections, db, lastToast, detectDone, picks, faults>>

\* faulty variant of the Upload button: it applies without the conflict review
ProcessUploadWithoutReview ==
  /\ UNCHANGED <<ledger, settings>>
  /\ UploadPanelShown
  /\ ~isProcessing
  /\ ExecuteUpload

\* faulty variant of the Upload button: it is not disabled while processing
ProcessUploadWhileProcessing ==
  /\ UNCHANGED <<ledger, settings>>
  /\ UploadPanelShown
  /\ IF csvData = NULL \/ file = NULL
       THEN UNCHANGED vars
       ELSE IF Len(conflicts) > 0
         THEN /\ showConflictDialog' = TRUE
              /\ UNCHANGED <<file, csvData, isProcessing, progress, validationErrors,
                             conflicts, uploadResult, readers, detections, applies,
                             db, lastToast, detectDone, picks, faults>>
         ELSE ExecuteUpload

\* the Upload button (disabled while isProcessing)
ProcessUpload ==
  /\ UNCHANGED <<ledger, settings>>
  /\ UploadPanelShown
  /\ ~isProcessing
  /\ IF csvData = NULL \/ file = NULL
       THEN UNCHANGED vars
       ELSE IF Len(conflicts) > 0
         THEN /\ showConflictDialog' = TRUE
              /\ UNCHANGED <<file, csvData, isProcessing, progress, validationErrors,
                             conflicts, uploadResult, readers, detections, applies,
                             db, lastToast, detectDone, picks, faults>>
         ELSE ExecuteUpload

\* the dialog's "Proceed with Upload" button
ProceedWithUpload ==
  /\ UNCHANGED <<ledger, settings>>
  /\ showConflictDialog
  /\ ExecuteUpload

\* the dialog's Cancel button, and closing the dialog (onOpenChange)
CancelDialog ==
  /\ UNCHANGED <<ledger, settings>>
  /\ showConflictDialog
  /\ showConflictDialog' = FALSE
  /\ UNCHANGED <<file, csvData, isProcessing, progress, validationErrors, conflicts,
                 uploadResult, readers, detections, applies, db, lastToast, detectDone,
                 picks, faults>>

\* the dialog's per-row Select
updateConflictAction(rowIndex, action) ==
  /\ UNCHANGED <<ledger, settings>>
  /\ showConflictDialog
  /\ \E i \in 1..Len(conflicts) : conflicts[i].row = rowIndex
  /\ conflicts' = [i \in 1..Len(conflicts) |->
                     IF conflicts[i].row = rowIndex
                       THEN [conflicts[i] EXCEPT !.action = action]
                       ELSE conflicts[i]]
  /\ UNCHANGED <<file, csvData, isProcessing, progress, validationErrors,
                 showConflictDialog, uploadResult, readers, detections, applies,
                 db, lastToast, detectDone, picks, faults>>

\* faulty variant of Reset: it also drops the running apply
resetUploadStopsApply ==
  /\ UNCHANGED <<ledger, settings>>
  /\ ResetShown
  /\ file' = NULL
  /\ csvData' = NULL
  /\ uploadResult' = NULL
  /\ validationErrors' = <<>>
  /\ conflicts' = <<>>
  /\ progress' = 0
  /\ detections' = Outdated(detections)
  /\ detectDone' = FALSE
  /\ applies' = <<>>
  /\ isProcessing' = FALSE
  /\ UNCHANGED <<showConflictDialog, readers, db, lastToast, picks, faults>>

\* Reset, and "Upload Another File"
resetUpload ==
  /\ UNCHANGED <<ledger, settings>>
  /\ ResetShown
  /\ file' = NULL
  /\ csvData' = NULL
  /\ uploadResult' = NULL
  /\ validationErrors' = <<>>
  /\ conflicts' = <<>>
  /\ progress' = 0
  /\ detections' = Outdated(detections)
  /\ detectDone' = FALSE
  /\ UNCHANGED <<isProcessing, showConflictDialog, readers, applies, db, lastToast,
                 picks, faults>>

(***************************************************************************)
(* executeUpload: the loop over itemsToProcess, one row per step, the      *)
(* stock insert of a new item as a step of its own.                        *)
(***************************************************************************)
\* faulty variant of the row count: a row that failed is counted as well
AdvancedCountsEveryRow(t, counted, errors) ==
  [t EXCEPT !.k = @ + 1, !.pc = "row", !.itemCode = NULL,
            !.totalSuccess = @ + 1,
            !.allErrors = @ \o errors]

\* the task after the row at k + 1 was handled
Advanced(t, counted, errors) ==
  [t EXCEPT !.k = @ + 1, !.pc = "row", !.itemCode = NULL,
            !.totalSuccess = IF counted THEN @ + 1 ELSE @,
            !.allErrors = @ \o errors]

\* faulty variant of the progress report: it is set after every row
ProgressAfterEveryRow(t) == RoundPercent(t.k + 1, Len(t.itemsToProcess))

\* setProgress at the end of a batch
ProgressAfter(t) ==
  LET done == t.k + 1
      total == Len(t.itemsToProcess)
  IN IF done % batchSize = 0 \/ done = total
       THEN RoundPercent(done, total)
       ELSE progress

\* faulty variant of the choice: every conflicting row that is applied updates
UpdateChosenForAnyConflict(conflict) == conflict # NULL

\* if (conflict && conflict.action === 'update')
UpdateChosen(conflict) == conflict # NULL /\ conflict.action = "update"

RowError(item, message) ==
  <<[row |-> item["originalRowIndex"], message |-> message]>>

ApplyRow(n) ==
  /\ UNCHANGED <<ledger, settings>>
  /\ n \in 1..Len(applies)
  /\ applies[n].pc = "row"
  /\ applies[n].k < Len(applies[n].itemsToProcess)
  /\ \E rpc \in Outcomes, write \in Outcomes :
       LET t == applies[n]
           item == t.itemsToProcess[t.k + 1]
           category == FindCategory(Get(item, "category_name"))
           itemCode == ItemCodeOf(category, item)
           conflict == FindConflict(t.conflicts, item["originalRowIndex"])
           cost == IF category = NULL THEN 0 ELSE Cost(rpc) + Cost(write)
           Fails(message) ==
             /\ applies' = [applies EXCEPT ![n] = Advanced(t, FALSE, RowError(item, message))]
             /\ progress' = ProgressAfter(t)
             /\ UNCHANGED item_master
       IN /\ (category = NULL \/ rpc # "ok") => write = "ok"
          /\ (category = NULL) => rpc = "ok"
          /\ Spend(cost)
          /\ IF category = NULL
               THEN Fails(<<"Category not found", Get(item, "category_name")>>)
             ELSE IF rpc = "error"
               THEN Fails(<<"Error generating item code">>)
             ELSE IF rpc = "throw"
               THEN Fails(<<"thrown">>)
             ELSE IF UpdateChosen(conflict)
               THEN IF write = "ok"
                      THEN /\ item_master' = UpdateWhereCode(item_master, item, category, itemCode)
                           /\ applies' = [applies EXCEPT ![n] = Advanced(t, TRUE, <<>>)]
                           /\ progress' = ProgressAfter(t)
                    ELSE IF write = "error"
                      THEN Fails(<<"Error updating item">>)
                      ELSE Fails(<<"thrown">>)
             ELSE IF write = "ok" /\ ~UniqueViolation(item_master, itemCode)
                    THEN /\ Len(item_master) < MaxItems
                         /\ item_master' = Append(item_master, InsertedItem(item, category, itemCode))
                         /\ applies' = [applies EXCEPT ![n].pc = "stock", ![n].itemCode = itemCode]
                         /\ UNCHANGED progress
                  ELSE IF write \in {"ok", "error"}
                    THEN Fails(<<"Error inserting item">>)
                    ELSE Fails(<<"thrown">>)
  /\ UNCHANGED <<file, csvData, isProcessing, validationErrors, conflicts,
                 showConflictDialog, uploadResult, readers, detections, stock,
                 csv_upload_log, lastToast, detectDone, picks>>

\* "Initialize stock entry": the result of the insert is not looked at
ApplyStock(n) ==
  /\ UNCHANGED <<ledger, settings>>
  /\ n \in 1..Len(applies)
  /\ applies[n].pc = "stock"
  /\ \E write \in Outcomes :
       LET t == applies[n]
           item == t.itemsToProcess[t.k + 1]
       IN /\ Spend(Cost(write))
          /\ stock' = IF write = "ok" /\ ~UniqueViolation(stock, t.itemCode)
                        THEN Append(stock, [item_code |-> t.itemCode,
                                            opening_qty |-> 0, current_qty |-> 0])
                        ELSE stock
          /\ applies' = [applies EXCEPT ![n] =
                           IF write = "throw"
                             THEN Advanced(t, FALSE, RowError(item, <<"thrown">>))
                             ELSE Advanced(t, TRUE, <<>>)]
          /\ progress' = ProgressAfter(t)
  /\ UNCHANGED <<file, csvData, isProcessing, validationErrors, conflicts,
                 showConflictDialog, uploadResult, readers, detections, item_master,
                 csv_upload_log, lastToast, detectDone, picks>>

\* faulty variant of the end of executeUpload: without the finally block
ApplyFinishKeepsProcessing(n) ==
  /\ UNCHANGED <<ledger, settings>>
  /\ n \in 1..Len(applies)
  /\ applies[n].pc = "row"
  /\ applies[n].k = Len(applies[n].itemsToProcess)
  /\ \E user \in {"user", "none", "throw"}, write \in Outcomes :
       LET t == applies[n]
           thrown == user = "throw" \/ (user = "user" /\ write = "throw")
           logged == user = "user" /\ write = "ok"
       IN /\ (user # "user") => write = "ok"
          /\ Spend(IF user = "throw" THEN 1 ELSE Cost(write))
          /\ logged => csv_upload_log < MaxLog
          /\ csv_upload_log' = IF logged THEN csv_upload_log + 1 ELSE csv_upload_log
          /\ IF thrown
               THEN /\ lastToast' = "Upload Failed"
                    /\ UNCHANGED uploadResult
               ELSE /\ uploadResult' = [success |-> t.totalSuccess,
                                        errors |-> t.allErrors,
                                        total |-> Len(t.dataObjects)]
                    /\ lastToast' = "Upload Complete"
  /\ UNCHANGED isProcessing
  /\ applies' = RemoveAt(applies, n)
  /\ UNCHANGED <<file, csvData, progress, validationErrors, conflicts,
                 showConflictDialog, readers, detections, item_master, stock, detectDone,
                 picks>>

(***************************************************************************)
(* executeUpload after the loop: the audit record, the result, finally.    *)
(***************************************************************************)
ApplyFinish(n) ==
  /\ UNCHANGED <<ledger, settings>>
  /\ n \in 1..Len(applies)
  /\ applies[n].pc = "row"
  /\ applies[n].k = Len(applies[n].itemsToProcess)
  /\ \E user \in {"user", "none", "throw"}, write \in Outcomes :
       LET t == applies[n]
           thrown == user = "throw" \/ (user = "user" /\ write = "throw")
           logged == user = "user" /\ write = "ok"
       IN /\ (user # "user") => write = "ok"
          /\ Spend(IF user = "throw" THEN 1 ELSE Cost(write))
          /\ logged => csv_upload_log < MaxLog
          /\ csv_upload_log' = IF logged THEN csv_upload_log + 1 ELSE csv_upload_log
          /\ IF thrown
               THEN /\ lastToast' = "Upload Failed"
                    /\ UNCHANGED uploadResult
               ELSE /\ uploadResult' = [success |-> t.totalSuccess,
                                        errors |-> t.allErrors,
                                        total |-> Len(t.dataObjects)]
                    /\ lastToast' = "Upload Complete"
  /\ isProcessing' = FALSE
  /\ applies' = RemoveAt(applies, n)
  /\ UNCHANGED <<file, csvData, progress, validationErrors, conflicts,
                 showConflictDialog, readers, detections, item_master, stock, detectDone,
                 picks>>

(***************************************************************************)
(* The specification.                                                      *)
(***************************************************************************)
Actions == {"skip", "update", "error"}

Next ==
  \/ \E f \in Files : HandleFileChange(f)
  \/ \E f \in Files : ReaderOnload(f)
  \/ \E n \in 1..MaxDetections : CheckForConflicts(n)
  \/ ProcessUpload
  \/ ProceedWithUpload
  \/ CancelDialog
  \/ \E r \in 2..3, a \in Actions : updateConflictAction(r, a)
  \/ resetUpload
  \/ \E n \in 1..MaxApplies : ApplyRow(n)
  \/ \E n \in 1..MaxApplies : ApplyStock(n)
  \/ \E n \in 1..MaxApplies : ApplyFinish(n)

Spec == Init /\ [][Next]_vars

\* every remote call of an apply returns or throws: its steps are taken
ApplyFairness ==
  /\ WF_vars(\E n \in 1..MaxApplies : ApplyRow(n))
  /\ WF_vars(\E n \in 1..MaxApplies : ApplyStock(n))
  /\ WF_vars(\E n \in 1..MaxApplies : ApplyFinish(n))

\* the files of the runs checked for termination
LiveFiles == {FileConflicts, FileMixed}

NextLive ==
  \/ \E f \in LiveFiles : HandleFileChange(f)
  \/ \E f \in LiveFiles : ReaderOnload(f)
  \/ \E n \in 1..MaxDetections : CheckForConflicts(n)
  \/ ProcessUpload
  \/ ProceedWithUpload
  \/ CancelDialog
  \/ \E r \in 2..3, a \in Actions : updateConflictAction(r, a)
  \/ resetUpload
  \/ \E n \in 1..MaxApplies : ApplyRow(n)
  \/ \E n \in 1..MaxApplies : ApplyStock(n)
  \/ \E n \in 1..MaxApplies : ApplyFinish(n)

SpecLive == Init /\ [][NextLive]_vars /\ ApplyFairness

(***************************************************************************)
(* The import of one large file: the user works with batch.csv only (and   *)
(* an empty file), no conflict arises.                                     *)
(***************************************************************************)
BatchFiles == {FileBatch, FileEmpty}

NextBatch ==
  \/ \E f \in BatchFiles : HandleFileChange(f)
  \/ \E f \in BatchFiles : ReaderOnload(f)
  \/ ProcessUpload
  \/ resetUpload
  \/ \E n \in 1..MaxApplies : ApplyRow(n)
  \/ \E n \in 1..MaxApplies : ApplyStock(n)
  \/ \E n \in 1..MaxApplies : ApplyFinish(n)

SpecBatch == Init /\ [][NextBatch]_vars

(***************************************************************************)
(* The stock pages: single-item creation (ItemMaster), the opening-stock   *)
(* import (OpeningStock), goods receipts (GRNProcessing), issues           *)
(* (IssueProcessing) and the view stock_summary.  Quantities are whole     *)
(* numbers; a number of days is kept in tenths, a daily rate in            *)
(* thousandths, so that ROUND(x, 1) and ROUND(x, 3) are exact.             *)
(***************************************************************************)
MaxJobs == 1        \* creations and opening-stock imports in flight at once
MaxCatalog == 3     \* item_master records while the stock pages are used
MaxReceipts == 1    \* grn_log records
MaxIssues == 2      \* issue_log records

\* the days on which something happens
Calendar == {0, 5, 35, 95}

\* a value a LEFT JOIN may leave NULL: <<>> is NULL, <<n>> is n
COALESCE(v, d) == IF v = <<>> THEN d ELSE v[1]

RECURSIVE SUM(_)
SUM(qs) == IF qs = <<>> THEN 0 ELSE Head(qs) + SUM(Tail(qs))

ABS(x) == IF x < 0 THEN -x ELSE x

\* ROUND(p / q, d) for q > 0, as a whole number of 10^-d: halves away from zero
RoundDiv(p, q) ==
  IF p >= 0 THEN (2 * p + q) \div (2 * q) ELSE -((2 * (-p) + q) \div (2 * q))

Sentinel == 999999

Tenths(n) == 10 * n

\* SELECT item_code, SUM(qty_received) FROM grn_log GROUP BY item_code, joined on code
grn_totals(code) ==
  LET Of(r) == r.item_code = code
      rows == SelectSeq(grn_log, Of)
  IN IF rows = <<>> THEN <<>>
     ELSE <<SUM([i \in 1..Len(rows) |-> rows[i].qty_received])>>

\* SELECT item_code, SUM(qty_issued) FROM issue_log [WHERE created_at >= since] GROUP BY item_code
IssuedSince(code, since) ==
  LET Of(r) == r.item_code = code /\ r.created_at >= since
      rows == SelectSeq(issue_log, Of)
  IN IF rows = <<>> THEN <<>>
     ELSE <<SUM([i \in 1..Len(rows) |-> rows[i].qty_issued])>>

issue_totals(code) ==
  LET Of(r) == r.item_code = code
      rows == SelectSeq(issue_log, Of)
  IN IF rows = <<>> THEN <<>>
     ELSE <<SUM([i \in 1..Len(rows) |-> rows[i].qty_issued])>>

recent_consumption_7d(code) == IssuedSince(code, today - 7)

recent_consumption_30d(code) == IssuedSince(code, today - 30)

recent_consumption_90d(code) == IssuedSince(code, today - 90)

\* faulty variant of calculated_qty: the issues are not subtracted
calculated_qty_ignores_issues(s) ==
  s.opening_qty + COALESCE(grn_totals(s.item_code), 0)

calculated_qty(s) ==
  s.opening_qty + COALESCE(grn_totals(s.item_code), 0)
    - COALESCE(issue_totals(s.item_code), 0)

\* faulty variant of days_of_cover: it looks at the 7-day window
days_of_cover_of_last_week(s) ==
  IF COALESCE(recent_consumption_7d(s.item_code), 0) > 0
    THEN RoundDiv(10 * s.current_qty * 7, recent_consumption_7d(s.item_code)[1])
  ELSE IF s.current_qty > 0 /\ COALESCE(recent_consumption_7d(s.item_code), 0) = 0
    THEN Tenths(Sentinel)
  ELSE 0

\* CASE ... END as days_of_cover, in tenths of a day
days_of_cover(s) ==
  IF COALESCE(recent_consumption_30d(s.item_code), 0) > 0
    THEN RoundDiv(10 * s.current_qty * 30, recent_consumption_30d(s.item_code)[1])
  ELSE IF s.current_qty > 0 /\ COALESCE(recent_consumption_30d(s.item_code), 0) = 0
    THEN Tenths(Sentinel)
  ELSE 0

days_of_cover_7d(s) ==
  IF COALESCE(recent_consumption_7d(s.item_code), 0) > 0
    THEN RoundDiv(10 * s.current_qty * 7, recent_consumption_7d(s.item_code)[1])
  ELSE IF s.current_qty > 0 /\ COALESCE(recent_consumption_7d(s.item_code), 0) = 0
    THEN Tenths(Sentinel)
  ELSE 0

\* faulty variant of days_of_cover_90d: it divides by the rounded rate
days_of_cover_90d_by_rounded_rate(s) ==
  IF COALESCE(recent_consumption_90d(s.item_code), 0) > 0
    THEN RoundDiv(10 * 1000 * s.current_qty,
                  RoundDiv(1000 * recent_consumption_90d(s.item_code)[1], 90))
  ELSE IF s.current_qty > 0 /\ COALESCE(recent_consumption_90d(s.item_code), 0) = 0
    THEN Tenths(Sentinel)
  ELSE 0

days_of_cover_90d(s) ==
  IF COALESCE(recent_consumption_90d(s.item_code), 0) > 0
    THEN RoundDiv(10 * s.current_qty * 90, recent_consumption_90d(s.item_code)[1])
  ELSE IF s.current_qty > 0 /\ COALESCE(recent_consumption_90d(s.item_code), 0) = 0
    THEN Tenths(Sentinel)
  ELSE 0

\* faulty variant of the validation status: it compares with the opening quantity
stock_validation_status_against_opening(s) ==
  IF 100 * ABS(s.opening_qty - s.current_qty) > 1 THEN "MISMATCH" ELSE "OK"

\* ABS(calculated - current) > 0.01, in hundredths
stock_validation_status(s) ==
  IF 100 * ABS(calculated_qty(s) - s.current_qty) > 1 THEN "MISMATCH" ELSE "OK"

\* CASE ... END as consumption_rate_W, in thousandths per day
consumption_rate_7d(s) ==
  IF COALESCE(recent_consumption_7d(s.item_code), 0) > 0
    THEN RoundDiv(1000 * recent_consumption_7d(s.item_code)[1], 7)
    ELSE 0

consumption_rate_30d(s) ==
  IF COALESCE(recent_consumption_30d(s.item_code), 0) > 0
    THEN RoundDiv(1000 * recent_consumption_30d(s.item_code)[1], 30)
    ELSE 0

consumption_rate_90d(s) ==
  IF COALESCE(recent_consumption_90d(s.item_code), 0) > 0
    THEN RoundDiv(1000 * recent_consumption_90d(s.item_code)[1], 90)
    ELSE 0

\* FROM stock s LEFT JOIN item_master im ON s.item_code = im.item_code:
\* the item_master rows a stock row joins, 0 when there is none
JoinedItems(i) ==
  LET hits == {j \in 1..Len(item_master) : item_master[j].item_code = stock[i].item_code}
  IN IF hits = {} THEN {0} ELSE hits

\* LEFT JOIN categories c ON im.category_id = c.id
CategoryNameOf(j) ==
  LET hits == {c \in 1..Len(categories_table) :
                 j # 0 /\ categories_table[c].id = item_master[j].category_id}
  IN IF hits = {} THEN DbNull
     ELSE categories_table[CHOOSE c \in hits : TRUE].category_name

\* one row of the view: stock row i joined with item_master row j
SummaryRow(i, j) ==
  LET s == stock[i]
  IN [stock_row |-> i, item_row |-> j,
      item_code |-> s.item_code,
      item_name |-> IF j = 0 THEN DbNull ELSE item_master[j].item_name,
      category_name |-> CategoryNameOf(j),
      opening_qty |-> s.opening_qty,
      total_grn_qty |-> COALESCE(grn_totals(s.item_code), 0),
      total_issued_qty |-> COALESCE(issue_totals(s.item_code), 0),
      current_qty |-> s.current_qty,
      calculated_qty |-> calculated_qty(s),
      issue_7d |-> COALESCE(recent_consumption_7d(s.item_code), 0),
      issue_30d |-> COALESCE(recent_consumption_30d(s.item_code), 0),
      issue_90d |-> COALESCE(recent_consumption_90d(s.item_code), 0),
      days_of_cover |-> days_of_cover(s),
      days_of_cover_7d |-> days_of_cover_7d(s),
      days_of_cover_90d |-> days_of_cover_90d(s),
      stock_validation_status |-> stock_validation_status(s),
      consumption_rate_7d |-> consumption_rate_7d(s),
      consumption_rate_30d |-> consumption_rate_30d(s),
      consumption_rate_90d |-> consumption_rate_90d(s)]

stock_summary ==
  {SummaryRow(p[1], p[2]) :
     p \in {q \in (1..Len(stock)) \X (0..Len(item_master)) : q[2] \in JoinedItems(q[1])}}

(***************************************************************************)
(* The datastore's own reaction to an accepted receipt or issue: the       *)
(* running balance current_qty of the item's stock record moves by the     *)
(* quantity.                                                               *)
(***************************************************************************)
StockMovedBy(table, code, delta) ==
  [i \in 1..Len(table) |->
     IF table[i].item_code = code
       THEN [table[i] EXCEPT !.current_qty = @ + delta]
       ELSE table[i]]

(***************************************************************************)
(* createItemMutation: the code, the item, its stock record.               *)
(***************************************************************************)
\* what the "Add Item" form submits
ItemForms ==
  { [item_name |-> "Tape", category_id |-> "cat-2", qualifier |-> "", gsm |-> DbNull,
     size_mm |-> "48", uom |-> "PCS", usage_type |-> "", status |-> "active"] }

FindCategoryById(id) ==
  LET hits == {i \in 1..Len(categories) : categories[i].id = id}
  IN IF hits = {} THEN NULL ELSE categories[CHOOSE i \in hits : \A j \in hits : i <= j]

CreatedCode(itemData) ==
  LET category == FindCategoryById(itemData.category_id)
  IN generate_item_code(IF category = NULL THEN "GEN" ELSE category.category_name,
                        Or(itemData.qualifier, ""),
                        Or(itemData.size_mm, ""),
                        OrNull(itemData.gsm))

\* finalItemData = {...itemData, item_code, auto_code}
FinalItemData(itemData, codeData) ==
  [item_code |-> codeData, item_name |-> itemData.item_name,
   category_id |-> itemData.category_id, qualifier |-> itemData.qualifier,
   gsm |-> itemData.gsm, size_mm |-> itemData.size_mm, uom |-> itemData.uom,
   usage_type |-> itemData.usage_type, status |-> itemData.status,
   auto_code |-> codeData]

CreateItem(itemData) ==
  /\ Len(jobs) < MaxJobs
  /\ jobs' = Append(jobs, [kind |-> "create", itemData |-> itemData, pc |-> "rpc",
                           codeData |-> NULL])
  /\ UNCHANGED <<settings, importer, item_master, stock, faults, grn_log, issue_log, today,
                 categories_table>>

\* one await of the mutation; an error or an exception ends it (onError)
CreateItemStep(n) ==
  /\ n \in 1..Len(jobs)
  /\ jobs[n].kind = "create"
  /\ \E outcome \in Outcomes :
       LET t == jobs[n]
       IN /\ Spend(Cost(outcome))
          /\ CASE t.pc = "rpc" ->
                    /\ jobs' = IF outcome = "ok"
                                 THEN [jobs EXCEPT ![n].pc = "insert",
                                                   ![n].codeData = CreatedCode(t.itemData)]
                                 ELSE RemoveAt(jobs, n)
                    /\ UNCHANGED <<item_master, stock>>
               [] t.pc = "insert" ->
                    IF outcome = "ok" /\ ~UniqueViolation(item_master, t.codeData)
                      THEN /\ Len(item_master) < MaxCatalog
                           /\ item_master' = Append(item_master,
                                                    FinalItemData(t.itemData, t.codeData))
                           /\ jobs' = [jobs EXCEPT ![n].pc = "stock"]
                           /\ UNCHANGED stock
                      ELSE /\ jobs' = RemoveAt(jobs, n)
                           /\ UNCHANGED <<item_master, stock>>
               [] t.pc = "stock" ->
                    /\ stock' = IF outcome = "ok" /\ ~UniqueViolation(stock, t.codeData)
                                  THEN Append(stock, [item_code |-> t.codeData,
                                                      opening_qty |-> 0, current_qty |-> 0])
                                  ELSE stock
                    /\ jobs' = RemoveAt(jobs, n)
                    /\ UNCHANGED item_master
  /\ UNCHANGED <<settings, importer, grn_log, issue_log, today, categories_table>>

(***************************************************************************)
(* processOpeningStock: per row the category (found or created), the item  *)
(* upsert, then the stock upsert.  Category names hold no wildcard of      *)
(* ilike, so ilike is equality ignoring case.                              *)
(***************************************************************************)
MaxCategories == 4  \* records of the table categories

NewCode == <<"RAW001">>

\* rows that name no category
OpeningFiles ==
  { << [item_code |-> ExistingCode, item_name |-> "Kraft Liner", category |-> "",
        opening_qty |-> "100", uom |-> "KG"] >>,
    << [item_code |-> NewCode, item_name |-> "Raw Material 1", category |-> "",
        opening_qty |-> "abc", uom |-> ""] >> }

\* rows that name an existing category in another case, and a new one twice
CategoryFiles ==
  { << [item_code |-> ExistingCode, item_name |-> "Kraft Liner",
        category |-> "raw materials", opening_qty |-> "100", uom |-> "KG"] >>,
    << [item_code |-> NewCode, item_name |-> "Raw Material 1",
        category |-> "Packaging", opening_qty |-> "abc", uom |-> ""],
       [item_code |-> NewCode, item_name |-> "Raw Material 1",
        category |-> "PACKAGING", opening_qty |-> "100", uom |-> "KG"] >> }

\* parseFloat(row.opening_qty) || 0
OpeningQty(text) ==
  CASE text = "100" -> 100
    [] OTHER -> 0

\* .ilike('category_name', row.category).single(): a row only if exactly one matches
SingleCategoryLike(table, pattern) ==
  LET hits == {i \in 1..Len(table) :
                 toLowerCase(table[i].category_name) = toLowerCase(pattern)}
  IN IF Cardinality(hits) = 1 THEN table[CHOOSE i \in hits : TRUE] ELSE NULL

\* the id the datastore gives the next category
NextCategoryId(table) ==
  CASE Len(table) = 2 -> "cat-3"
    [] Len(table) = 3 -> "cat-4"
    [] OTHER -> "cat-5"

\* upsert({...}) on item_master: the columns given replace those of the record
\* with the item_code, a new record gets null in the others
UpsertItem(table, row, categoryId) ==
  LET item_name == Or(row.item_name, row.item_code)
      uom == Or(row.uom, "PCS")
      hit == \E i \in 1..Len(table) : table[i].item_code = row.item_code
  IN IF hit
       THEN [i \in 1..Len(table) |->
               IF table[i].item_code = row.item_code
                 THEN [table[i] EXCEPT !.item_name = item_name, !.category_id = categoryId,
                                       !.uom = uom, !.status = "active"]
                 ELSE table[i]]
       ELSE Append(table,
                   [item_code |-> row.item_code, item_name |-> item_name,
                    category_id |-> categoryId, qualifier |-> DbNull, gsm |-> DbNull,
                    size_mm |-> DbNull, uom |-> uom, usage_type |-> DbNull,
                    status |-> "active", auto_code |-> DbNull])

\* faulty variant of the stock upsert: the running balance of a record is kept
UpsertStockKeepsCurrent(table, code, openingQty) ==
  IF \E i \in 1..Len(table) : table[i].item_code = code
    THEN [i \in 1..Len(table) |->
            IF table[i].item_code = code
              THEN [table[i] EXCEPT !.opening_qty = openingQty]
              ELSE table[i]]
    ELSE Append(table, [item_code |-> code, opening_qty |-> openingQty,
                        current_qty |-> openingQty])

\* upsert({...}) on stock
UpsertStock(table, code, openingQty) ==
  IF \E i \in 1..Len(table) : table[i].item_code = code
    THEN [i \in 1..Len(table) |->
            IF table[i].item_code = code
              THEN [table[i] EXCEPT !.opening_qty = openingQty, !.current_qty = openingQty]
              ELSE table[i]]
    ELSE Append(table, [item_code |-> code, opening_qty |-> openingQty,
                        current_qty |-> openingQty])

\* where a row starts: if (row.category) the lookup, else the item upsert
FirstStep(row) == IF Truthy(row.category) THEN "category" ELSE "item"

ProcessOpeningStock(data) ==
  /\ Len(jobs) < MaxJobs
  /\ jobs' = Append(jobs, [kind |-> "opening", data |-> data, i |-> 1,
                           pc |-> FirstStep(data[1]), categoryId |-> DbNull,
                           results |-> [success |-> 0, errors |-> <<>>]])
  /\ UNCHANGED <<settings, importer, item_master, stock, faults, grn_log, issue_log, today,
                 categories_table>>

\* the job after row i: counted, or with the row's error; after the last row
\* the loop is left and results is what the function returns
OpeningAfterRow(n, counted) ==
  LET t == jobs[n]
      results == IF counted
                   THEN [t.results EXCEPT !.success = @ + 1]
                   ELSE [t.results EXCEPT !.errors =
                           Append(@, [row |-> (t.i - 1) + 1, data |-> t.data[t.i]])]
  IN IF t.i < Len(t.data)
       THEN [jobs EXCEPT ![n].i = t.i + 1, ![n].pc = FirstStep(t.data[t.i + 1]),
                         ![n].categoryId = DbNull, ![n].results = results]
       ELSE [jobs EXCEPT ![n].pc = "return", ![n].results = results]

OpeningStockStep(n) ==
  /\ n \in 1..Len(jobs)
  /\ jobs[n].kind = "opening"
  /\ jobs[n].pc # "return"
  /\ \E outcome \in Outcomes :
       LET t == jobs[n]
           row == t.data[t.i]
           existingCategory == SingleCategoryLike(categories_table, row.category)
       IN /\ Spend(Cost(outcome))
          /\ CASE t.pc = "category" ->
                    /\ jobs' = IF outcome = "throw"
                                 THEN OpeningAfterRow(n, FALSE)
                               ELSE IF outcome = "ok" /\ existingCategory # NULL
                                 THEN [jobs EXCEPT ![n].pc = "item",
                                                   ![n].categoryId = existingCategory.id]
                               ELSE [jobs EXCEPT ![n].pc = "newCategory"]
                    /\ UNCHANGED <<item_master, stock, categories_table>>
               [] t.pc = "newCategory" ->
                    IF outcome = "ok"
                      THEN /\ Len(categories_table) < MaxCategories
                           /\ categories_table' =
                                Append(categories_table,
                                       [id |-> NextCategoryId(categories_table),
                                        category_name |-> row.category])
                           /\ jobs' = [jobs EXCEPT ![n].pc = "item",
                                         ![n].categoryId = NextCategoryId(categories_table)]
                           /\ UNCHANGED <<item_master, stock>>
                      ELSE /\ jobs' = OpeningAfterRow(n, FALSE)
                           /\ UNCHANGED <<item_master, stock, categories_table>>
               [] t.pc = "item" ->
                    IF outcome = "ok"
                      THEN /\ Len(UpsertItem(item_master, row, t.categoryId)) <= MaxCatalog
                           /\ item_master' = UpsertItem(item_master, row, t.categoryId)
                           /\ jobs' = [jobs EXCEPT ![n].pc = "stock"]
                           /\ UNCHANGED <<stock, categories_table>>
                      ELSE /\ jobs' = OpeningAfterRow(n, FALSE)
                           /\ UNCHANGED <<item_master, stock, categories_table>>
               [] t.pc = "stock" ->
                    IF outcome = "ok"
                      THEN /\ stock' = UpsertStock(stock, row.item_code,
                                                   OpeningQty(row.opening_qty))
                           /\ jobs' = OpeningAfterRow(n, TRUE)
                           /\ UNCHANGED <<item_master, categories_table>>
                      ELSE /\ jobs' = OpeningAfterRow(n, FALSE)
                           /\ UNCHANGED <<item_master, stock, categories_table>>
  /\ UNCHANGED <<settings, importer, grn_log, issue_log, today>>

\* return results
OpeningStockReturn(n) ==
  /\ n \in 1..Len(jobs)
  /\ jobs[n].kind = "opening"
  /\ jobs[n].pc = "return"
  /\ jobs' = RemoveAt(jobs, n)
  /\ UNCHANGED <<settings, importer, item_master, stock, faults, grn_log, issue_log, today,
                 categories_table>>

(***************************************************************************)
(* GRNProcessing and IssueProcessing: the mutation inserts the log record; *)
(* the datastore moves the balance with it.                                *)
(***************************************************************************)
ReceiptQuantities == {50}

IssueQuantities == {30}

\* the items the GRN form offers: .eq('status', 'active')
ItemsForGrn == {i \in 1..Len(item_master) : item_master[i].status = "active"}

\* the items the issue form offers: stock!inner(current_qty), current_qty > 0, active
ItemsWithStock ==
  {i \in 1..Len(item_master) :
     /\ item_master[i].status = "active"
     /\ \E k \in 1..Len(stock) :
          stock[k].item_code = item_master[i].item_code /\ stock[k].current_qty > 0}

\* selectedItem?.stock?.[0]?.current_qty || 0
AvailableStock(i) ==
  LET hits == {k \in 1..Len(stock) :
                 stock[k].item_code = item_master[i].item_code /\ stock[k].current_qty > 0}
  IN IF hits = {} THEN 0 ELSE stock[CHOOSE k \in hits : \A l \in hits : k <= l].current_qty

ProcessGrn(i, qty_received) ==
  /\ i \in ItemsForGrn
  /\ \E outcome \in {"ok", "error"} :
       /\ Spend(Cost(outcome))
       /\ IF outcome = "ok"
            THEN /\ Len(grn_log) < MaxReceipts
                 /\ grn_log' = Append(grn_log, [item_code |-> item_master[i].item_code,
                                                qty_received |-> qty_received,
                                                created_at |-> today])
                 /\ stock' = StockMovedBy(stock, item_master[i].item_code, qty_received)
            ELSE UNCHANGED <<grn_log, stock>>
  /\ UNCHANGED <<settings, importer, item_master, issue_log, today, jobs, categories_table>>

ProcessIssue(i, qty_issued) ==
  /\ i \in ItemsWithStock
  /\ qty_issued # 0
  /\ AvailableStock(i) >= qty_issued
  /\ \E outcome \in {"ok", "error"} :
       /\ Spend(Cost(outcome))
       /\ IF outcome = "ok"
            THEN /\ Len(issue_log) < MaxIssues
                 /\ issue_log' = Append(issue_log, [item_code |-> item_master[i].item_code,
                                                    qty_issued |-> qty_issued,
                                                    created_at |-> today])
                 /\ stock' = StockMovedBy(stock, item_master[i].item_code, -qty_issued)
            ELSE UNCHANGED <<issue_log, stock>>
  /\ UNCHANGED <<settings, importer, item_master, grn_log, today, jobs, categories_table>>

\* CURRENT_DATE moves on
NewDay(d) ==
  /\ d \in Calendar
  /\ d > today
  /\ today' = d
  /\ UNCHANGED <<settings, importer, item_master, stock, faults, grn_log, issue_log, jobs,
                 categories_table>>

NextStock ==
  \/ \E itemData \in ItemForms : CreateItem(itemData)
  \/ \E n \in 1..MaxJobs : CreateItemStep(n)
  \/ \E data \in OpeningFiles : ProcessOpeningStock(data)
  \/ \E n \in 1..MaxJobs : OpeningStockStep(n)
  \/ \E n \in 1..MaxJobs : OpeningStockReturn(n)
  \/ \E i \in 1..MaxCatalog, q \in ReceiptQuantities : ProcessGrn(i, q)
  \/ \E i \in 1..MaxCatalog, q \in IssueQuantities : ProcessIssue(i, q)
  \/ \E d \in Calendar : NewDay(d)

SpecStock == Init /\ [][NextStock]_vars

(***************************************************************************)
(* IntegrationSettings, as an administrator sees it.  The handlers await   *)
(* nothing, so each runs to its end in one step and loading, set and       *)
(* cleared within handleSaveApiKey and handleTestConnection, is false      *)
(* whenever a control can be used.                                         *)
(***************************************************************************)
\* what the user types into an API key field
KeyValues == {"", "sk-1", "sk-2"}

\* faulty variant of the switch: it toggles without the configuration check
HandleToggleIntegrationUnguarded(index) ==
  /\ index \in 1..Len(integrations)
  /\ integrations' = [integrations EXCEPT ![index].enabled = ~@]
  /\ settingsToast' = <<"Success", integrations[index].name,
                        IF integrations[index].enabled THEN "disabled" ELSE "enabled">>
  /\ UNCHANGED <<loading, importer, item_master, stock, faults, ledger>>

HandleToggleIntegration(index) ==
  /\ index \in 1..Len(integrations)
  /\ IF ~integrations[index].configured /\ ~integrations[index].enabled
       THEN /\ settingsToast' = <<"Configuration Required">>
            /\ UNCHANGED integrations
       ELSE /\ integrations' = [integrations EXCEPT ![index].enabled = ~@]
            /\ settingsToast' = <<"Success", integrations[index].name,
                                  IF integrations[index].enabled
                                    THEN "disabled" ELSE "enabled">>
  /\ UNCHANGED <<loading, importer, item_master, stock, faults, ledger>>

\* Save: disabled={loading || !integration.apiKey}
HandleSaveApiKey(index) ==
  /\ index \in 1..Len(integrations)
  /\ ~loading
  /\ Truthy(integrations[index].apiKey)
  /\ integrations' = [integrations EXCEPT ![index].configured = TRUE]
  /\ settingsToast' = <<"Success", "API key saved successfully">>
  /\ loading' = FALSE
  /\ UNCHANGED <<importer, item_master, stock, faults, ledger>>

\* Test Connection: rendered when configured, disabled={loading}
HandleTestConnection(index) ==
  /\ index \in 1..Len(integrations)
  /\ integrations[index].configured
  /\ ~loading
  /\ integrations' = [integrations EXCEPT ![index].testConnection = TRUE]
  /\ settingsToast' = <<"Success", "Connection test successful">>
  /\ loading' = FALSE
  /\ UNCHANGED <<importer, item_master, stock, faults, ledger>>

HandleApiKeyChange(index, value) ==
  /\ index \in 1..Len(integrations)
  /\ integrations' = [integrations EXCEPT ![index].apiKey = value]
  /\ UNCHANGED <<loading, settingsToast, importer, item_master, stock, faults, ledger>>

NextSettings ==
  \/ \E index \in 1..2 : HandleToggleIntegration(index)
  \/ \E index \in 1..2 : HandleSaveApiKey(index)
  \/ \E index \in 1..2 : HandleTestConnection(index)
  \/ \E index \in 1..2, value \in KeyValues : HandleApiKeyChange(index, value)

SpecSettings == Init /\ [][NextSettings]_vars

(***************************************************************************)
(* Row validation over every combination of cells: the files "rows.csv"    *)
(* hold one row built from the cells below, alone or after a valid row.    *)
(***************************************************************************)
RowHeaders == <<"item_name", "category_name", "uom", "gsm", "status">>

RowCells ==
  [item_name : {"", "Kraft Liner"},
   category_name : {"", "Unknown", "Raw Materials", "raw materials"},
   uom : {"", "PCS"},
   gsm : {"", "abc", "80"},
   status : {"", "Active", "archived"}]

RowLine(c) == <<c.item_name, c.category_name, c.uom, c.gsm, c.status>>

ValidLine == <<"Kraft Liner", "Raw Materials", "KG", "80", "active">>

RowFiles ==
  {[name |-> "rows.csv", lines |-> <<RowHeaders, RowLine(c)>>] : c \in RowCells}
    \cup {[name |-> "rows.csv", lines |-> <<RowHeaders, ValidLine, RowLine(c)>>] :
             c \in RowCells}

NextRows ==
  \/ \E f \in RowFiles : HandleFileChange(f)
  \/ \E f \in RowFiles : ReaderOnload(f)

SpecRows == Init /\ [][NextRows]_vars

(***************************************************************************)
(* Opening-stock imports alone, of files whose rows name categories.       *)
(***************************************************************************)
NextOpening ==
  \/ \E data \in OpeningFiles \cup CategoryFiles : ProcessOpeningStock(data)
  \/ \E n \in 1..MaxJobs : OpeningStockStep(n)
  \/ \E n \in 1..MaxJobs : OpeningStockReturn(n)

SpecOpening == Init /\ [][NextOpening]_vars

(***************************************************************************)
(* The import of a file whose rows derive one and the same new code, and   *)
(* the "Add Item" form that derives that code too.                         *)
(***************************************************************************)
TwinFiles == {FileTwins}

NextTwins ==
  \/ \E f \in TwinFiles : HandleFileChange(f)
  \/ \E f \in TwinFiles : ReaderOnload(f)
  \/ \E n \in 1..MaxDetections : CheckForConflicts(n)
  \/ ProcessUpload
  \/ ProceedWithUpload
  \/ CancelDialog
  \/ \E r \in 2..3, a \in Actions : updateConflictAction(r, a)
  \/ resetUpload
  \/ \E n \in 1..MaxApplies : ApplyRow(n)
  \/ \E n \in 1..MaxApplies : ApplyStock(n)
  \/ \E n \in 1..MaxApplies : ApplyFinish(n)
  \/ \E itemData \in ItemForms : CreateItem(itemData)
  \/ \E n \in 1..MaxJobs : CreateItemStep(n)

SpecTwins == Init /\ [][NextTwins]_vars

(***************************************************************************)
(* Vocabulary of the properties.                                           *)
(***************************************************************************)
HeadersComplete(csv) == MissingHeaders(csv) = <<>>

HasRowErrors(csv) == HeadersComplete(csv) /\ ValidateAll(DataObjects(csv)) # <<>>

PassesValidation(csv) == HeadersComplete(csv) /\ ValidateAll(DataObjects(csv)) = <<>>

\* the action the conflict set holds for a row number, "none" without a conflict
ActionOf(cs, row) ==
  IF FindConflict(cs, row) = NULL THEN "none" ELSE FindConflict(cs, row).action

RowNumbers(t) == {i + 1 : i \in 1..Len(t.dataObjects)}

SkippedRows(t) == {r \in RowNumbers(t) : ActionOf(t.conflicts, r) = "skip"}

CodeExists(table, code) == \E i \in 1..Len(table) : table[i].item_code = code

\* the step handles the row at k + 1 of apply n to its end
RowDone(n) ==
  /\ n \in 1..Len(applies)
  /\ Len(applies') = Len(applies)
  /\ applies'[n].k = applies[n].k + 1

\* row number, category and derived code of the row apply n handles next
RowOf(n) == applies[n].itemsToProcess[applies[n].k + 1]

RowCodeOf(n) == ItemCodeOf(FindCategory(Get(RowOf(n), "category_name")), RowOf(n))

\* the step is the end of apply n; it publishes the result unless the audit threw
Finished(n) ==
  /\ n \in 1..Len(applies)
  /\ applies' = RemoveAt(applies, n)

Published(n) == Finished(n) /\ lastToast' = "Upload Complete"

(***************************************************************************)
(* C1: a file whose validation yields row errors is blocked: no conflict   *)
(* detection runs over its rows and no apply is started over them.         *)
(* Violated: handleFileChange clears validationErrors but keeps csvData,   *)
(* so until the next file's onload the Upload button applies the old rows. *)
(***************************************************************************)
C1_InvalidFileNeverApplied ==
  /\ \A n \in 1..Len(applies) : ~HasRowErrors(applies[n].csvData)
  /\ \A n \in 1..Len(detections) : ValidateAll(detections[n].data) = <<>>

(***************************************************************************)
(* C2: a file that lacks a required header is blocked: no apply is started *)
(* over it.  Violated: onload sets csvData before the header check and     *)
(* leaves validationErrors empty, so the Upload button is shown.           *)
(***************************************************************************)
C2_MissingHeaderNeverApplied ==
  \A n \in 1..Len(applies) : HeadersComplete(applies[n].csvData)

(***************************************************************************)
(* C3: an apply over a file that passed validation starts only after the   *)
(* conflict detection of that file has finished.  Violated: the Upload     *)
(* button is shown while checkForConflicts is still awaiting.              *)
(***************************************************************************)
C3_ApplyOnlyAfterDetection ==
  \A n \in 1..Len(applies) :
    PassesValidation(applies[n].csvData) => applies[n].detected

(***************************************************************************)
(* C4: with a non-empty conflict set, an upload request only opens the     *)
(* conflict review and writes nothing; an apply with conflicts starts only *)
(* from the open review (Proceed); closing the review writes nothing and   *)
(* starts no apply; no apply runs while the review is open.                *)
(***************************************************************************)
C4_ReviewBeforeApply ==
  [][ /\ (~showConflictDialog /\ showConflictDialog') =>
           /\ conflicts # <<>>
           /\ UNCHANGED <<item_master, stock, applies>>
      /\ (conflicts # <<>> /\ Len(applies') > Len(applies)) => showConflictDialog
      /\ (showConflictDialog /\ ~showConflictDialog' /\ Len(applies') <= Len(applies)) =>
           UNCHANGED <<item_master, stock, applies>>
      /\ showConflictDialog => applies = <<>>
    ]_vars

C4_Witness ==
  /\ showConflictDialog
  /\ conflicts # <<>>
  /\ applies = <<>>
  /\ item_master = InitialItems

(***************************************************************************)
(* C5: when the conflict detection of the loaded file finishes, every row  *)
(* whose derived code is the item_code of an item_master record is in the  *)
(* conflict set, with row number index + 2 and action skip.  Violated:     *)
(* checkForConflicts drops a row whose rpc or lookup fails.                *)
(***************************************************************************)
C5_EveryExistingCodeIsAConflict ==
  [][ (~detectDone /\ detectDone' /\ csvData' # NULL) =>
        LET dataObjects == DataObjects(csvData')
        IN \A i \in 1..Len(dataObjects) :
             LET code == ItemCodeOf(FindCategory(Get(dataObjects[i], "category_name")),
                                    dataObjects[i])
             IN CodeExists(item_master', code) =>
                  \E c \in 1..Len(conflicts') :
                    /\ conflicts'[c].row = (i - 1) + 2
                    /\ conflicts'[c].item_code = code
                    /\ conflicts'[c].action = "skip"
    ]_vars

(***************************************************************************)
(* C6: a row whose conflict action is skip is not processed: it is not     *)
(* among the rows apply handles (so no call is made for it) and no error   *)
(* entry names it; the published success and error counts add up to the    *)
(* number of rows not skipped.                                             *)
(***************************************************************************)
SkippedRowsOmitted ==
  \A n \in 1..Len(applies) :
    LET t == applies[n]
    IN /\ \A j \in 1..Len(t.itemsToProcess) :
            t.itemsToProcess[j]["originalRowIndex"] \notin SkippedRows(t)
       /\ \A e \in 1..Len(t.allErrors) : t.allErrors[e].row \notin SkippedRows(t)
       /\ Len(t.itemsToProcess) = Cardinality(RowNumbers(t) \ SkippedRows(t))
       /\ t.totalSuccess + Len(t.allErrors) = t.k

\* two conflicting rows, one set to update and one left on skip
UpdateAndSkip(t) ==
  /\ Len(t.dataObjects) = 2
  /\ Len(t.conflicts) = 2
  /\ {ActionOf(t.conflicts, 2), ActionOf(t.conflicts, 3)} = {"update", "skip"}

(* C6 as stated: in the scenario the final report has success = 1.         *)
(* Violated when the update of the one processed row fails.                *)
C6_SkipScenarioAlwaysOneSuccess ==
  /\ []SkippedRowsOmitted
  /\ [][ \A n \in 1..Len(applies) :
           (Published(n) /\ UpdateAndSkip(applies[n])) => uploadResult'.success = 1
       ]_vars

(* C6 as amended: in the scenario the report has success = 1 and no error  *)
(* when no call of the update row fails, and success = 0 with one error    *)
(* entry, for the update row, when one fails; the skipped row adds to      *)
(* neither.                                                                *)
C6_SkipOmitted ==
  /\ []SkippedRowsOmitted
  /\ [][ \A n \in 1..Len(applies) :
           /\ Published(n) =>
                /\ uploadResult'.success = applies[n].totalSuccess
                /\ uploadResult'.errors = applies[n].allErrors
                /\ uploadResult'.success + Len(uploadResult'.errors)
                     = Cardinality(RowNumbers(applies[n]) \ SkippedRows(applies[n]))
           /\ (Published(n) /\ UpdateAndSkip(applies[n])) =>
                \/ uploadResult'.success = 1 /\ uploadResult'.errors = <<>>
                \/ /\ uploadResult'.success = 0
                   /\ Len(uploadResult'.errors) = 1
                   /\ ActionOf(applies[n].conflicts, uploadResult'.errors[1].row) = "update"
           /\ (RowDone(n) /\ UpdateAndSkip(applies[n]) /\ faults' = faults) =>
                applies'[n].totalSuccess = 1
       ]_vars

C6_Witness ==
  /\ uploadResult = [success |-> 1, errors |-> <<>>, total |-> 2]
  /\ Len(item_master) = 1
  /\ item_master[1].item_name \in {"Kraft Roll", "Kraft Sheet"}
  /\ conflicts # <<>>
  /\ \E i \in 1..Len(conflicts) : conflicts[i].action = "skip"

(***************************************************************************)
(* C7: an import in which every row is marked skip changes no item_master  *)
(* and no stock record (the categories are the component's constant prop), *)
(* and the result it publishes is success = 0 with no errors, each time it *)
(* is run.                                                                 *)
(***************************************************************************)
EveryRowSkipped(t) ==
  /\ Len(t.dataObjects) > 0
  /\ SkippedRows(t) = RowNumbers(t)

C7_AllSkipIsIdempotent ==
  [][ /\ \A n \in 1..Len(applies) :
           (EveryRowSkipped(applies[n]) /\ applies' # applies) =>
              /\ UNCHANGED <<item_master, stock>>
              /\ Finished(n)
              /\ Published(n) =>
                   uploadResult' = [success |-> 0, errors |-> <<>>,
                                    total |-> Len(applies[n].dataObjects)]
      /\ \A n \in 1..Len(applies') :
           (n > Len(applies) /\ EveryRowSkipped(applies'[n])) =>
              /\ UNCHANGED <<item_master, stock>>
              /\ applies'[n].itemsToProcess = <<>>
    ]_vars

C7_Witness ==
  /\ uploadResult = [success |-> 0, errors |-> <<>>, total |-> 2]
  /\ item_master = InitialItems
  /\ stock = InitialStock
  /\ Len(conflicts) = 2
  /\ \A i \in 1..Len(conflicts) : conflicts[i].action = "skip"

(***************************************************************************)
(* C8: a row of which a call fails (code generation, category lookup, a    *)
(* write, an exception) gets exactly one {row, message} entry and is not   *)
(* counted, and the apply goes on to the next row; stated for the applies  *)
(* that started after their file's conflict detection.  Violated: the      *)
(* result of the stock insert is not looked at, so a row whose stock       *)
(* insert returns an error is counted as a success with no entry (see C9). *)
(***************************************************************************)
C8_EveryRowFailureRecorded ==
  [][ \A n \in 1..Len(applies) :
        (RowDone(n) /\ applies[n].detected) =>
          /\ applies'[n].pc = "row"
          /\ applies'[n].itemsToProcess = applies[n].itemsToProcess
          /\ (faults' > faults \/ FindCategory(Get(RowOf(n), "category_name")) = NULL) =>
               /\ applies'[n].totalSuccess = applies[n].totalSuccess
               /\ Len(applies'[n].allErrors) = Len(applies[n].allErrors) + 1
               /\ applies'[n].allErrors[Len(applies'[n].allErrors)].row
                    = RowOf(n)["originalRowIndex"]
    ]_vars

(***************************************************************************)
(* C9: a non-conflicting row counted as a success has an item_master       *)
(* record with its derived code and a stock record for that code with      *)
(* opening_qty = 0 and current_qty = 0; stated for the applies that        *)
(* started after their file's conflict detection.  Violated: the row is    *)
(* counted whether or not the stock insert succeeded.                      *)
(***************************************************************************)
C9_CountedNewItemHasStock ==
  [][ \A n \in 1..Len(applies) :
        ( /\ RowDone(n)
          /\ applies[n].detected
          /\ applies'[n].totalSuccess = applies[n].totalSuccess + 1
          /\ ActionOf(applies[n].conflicts, RowOf(n)["originalRowIndex"]) = "none" ) =>
          /\ CodeExists(item_master', RowCodeOf(n))
          /\ \E i \in 1..Len(stock') :
               stock'[i] = [item_code |-> RowCodeOf(n), opening_qty |-> 0, current_qty |-> 0]
    ]_vars

(***************************************************************************)
(* C10: the step that applies a row with action update inserts no item,    *)
(* leaves every stock record and every item_master record with another     *)
(* item_code as it is, keeps every item_code, and either counts the row or *)
(* records one error entry for it (the latter whenever a call failed); the *)
(* apply then stands at the next row.                                      *)
(***************************************************************************)
UpdateStep(n) ==
  /\ n \in 1..Len(applies)
  /\ Len(applies') = Len(applies)
  /\ applies'[n] # applies[n]
  /\ applies[n].pc = "row"
  /\ applies[n].k < Len(applies[n].itemsToProcess)
  /\ ActionOf(applies[n].conflicts, RowOf(n)["originalRowIndex"]) = "update"

C10_UpdateTouchesOnlyItsRecord ==
  [][ \A n \in 1..Len(applies) :
        UpdateStep(n) =>
          LET t == applies[n]
              u == applies'[n]
              row == RowOf(n)["originalRowIndex"]
              counted == u.totalSuccess = t.totalSuccess + 1 /\ u.allErrors = t.allErrors
              recorded == /\ u.totalSuccess = t.totalSuccess
                          /\ Len(u.allErrors) = Len(t.allErrors) + 1
                          /\ SubSeq(u.allErrors, 1, Len(t.allErrors)) = t.allErrors
                          /\ u.allErrors[Len(u.allErrors)].row = row
          IN /\ RowDone(n)
             /\ u.pc = "row"
             /\ u.itemsToProcess = t.itemsToProcess
             /\ stock' = stock
             /\ Len(item_master') = Len(item_master)
             /\ \A i \in 1..Len(item_master) :
                  /\ item_master'[i].item_code = item_master[i].item_code
                  /\ item_master[i].item_code # RowCodeOf(n) => item_master'[i] = item_master[i]
             /\ counted \/ recorded
             /\ (faults' > faults) => recorded /\ item_master' = item_master
             /\ (item_master' # item_master) => counted
    ]_vars

C10_Witness ==
  /\ Len(item_master) = 2
  /\ item_master[1].item_name \in {"Kraft Roll", "Kraft Sheet", "Kraft Reel"}
  /\ item_master[2].item_code # ExistingCode
  /\ item_master[2].item_name = "Carton Box"
  /\ \E n \in 1..Len(applies) :
       /\ applies[n].k > 0
       /\ applies[n].totalSuccess > 0
       /\ \E i \in 1..Len(applies[n].conflicts) : applies[n].conflicts[i].action = "update"

(***************************************************************************)
(* C11: the result published at completion is the one the rows produced,   *)
(* whatever the audit step does: every apply that ends (here: of a file    *)
(* that passed validation, started after detection) publishes {success,    *)
(* errors, total} of its own counts.  Violated: the audit step             *)
(* runs inside the try block before setUploadResult, so when it throws the *)
(* catch shows "Upload Failed" and no result is published.                 *)
(***************************************************************************)
C11_AuditNeverAffectsResult ==
  [][ \A n \in 1..Len(applies) :
        (Finished(n) /\ applies[n].detected /\ PassesValidation(applies[n].csvData)) =>
          uploadResult' = [success |-> applies[n].totalSuccess,
                           errors |-> applies[n].allErrors,
                           total |-> Len(applies[n].dataObjects)]
    ]_vars

(***************************************************************************)
(* C12: an apply over the 12 rows of batch.csv (batches of 10 and 2, no    *)
(* conflicts) in which only the seventh row fails, at its category lookup. *)
(***************************************************************************)
BatchApply(t) == t.csvData = parseCSV(FileBatch) /\ t.conflicts = <<>>

\* the codes of the rows of batch.csv other than the seventh
BatchCode(i) == generate_item_code("Finished Goods", BatchQualifiers[i], "", DbNull)

BatchReport(row) ==
  [success |-> 11,
   errors |-> <<[row |-> row, message |-> <<"Category not found", "Packaging">>]>>,
   total |-> 12]

(* C12 as stated: the report has success = 11 and one error entry whose    *)
(* row is 9.  Violated: the entry carries index + 2 of the row, the        *)
(* seventh row has index 6, so its entry says row 8.                       *)
C12_SeventhRowReportedAsNine ==
  [][ \A n \in 1..Len(applies) :
        (Published(n) /\ BatchApply(applies[n]) /\ faults' = 0) =>
          uploadResult' = BatchReport(9)
    ]_vars

(* C12 as amended: the report has success = 11 and one error entry whose   *)
(* row is 8; the seventh row stops nothing: the rows after it are handled  *)
(* in order, rows 8 to 12 are inserted, progress is reported after the     *)
(* tenth and after the twelfth row.                                        *)
C12_SeventhRowReportedAsEight ==
  [][ \A n \in 1..Len(applies) :
        /\ (Published(n) /\ BatchApply(applies[n]) /\ faults' = 0) =>
             /\ uploadResult' = BatchReport(8)
             /\ applies[n].k = 12
             /\ \A i \in 8..12 : CodeExists(item_master', BatchCode(i))
        /\ (RowDone(n) /\ BatchApply(applies[n])) =>
             /\ applies'[n].itemsToProcess = applies[n].itemsToProcess
             /\ Len(applies[n].itemsToProcess) = 12
             /\ RowOf(n)["originalRowIndex"] = applies[n].k + 2
             /\ (applies[n].k + 1 = 7) =>
                  applies'[n].allErrors =
                    applies[n].allErrors \o BatchReport(8).errors
             /\ progress' = CASE applies[n].k + 1 = 10 -> 83
                              [] applies[n].k + 1 = 12 -> 100
                              [] OTHER -> progress
    ]_vars

C12_Witness ==
  /\ uploadResult = BatchReport(8)
  /\ Len(item_master) = 12
  /\ \A i \in (1..12) \ {7} : CodeExists(item_master, BatchCode(i))
  /\ faults = 0

(***************************************************************************)
(* C13: a running apply is not stopped by Reset or by the selection of     *)
(* another file: such a step leaves every running apply as it is; an apply *)
(* keeps the rows and conflict decisions it captured at its start, works   *)
(* on the non-skipped rows among them, advances one row at a time and ends *)
(* only after the last of them; the result it publishes counts exactly     *)
(* those rows.                                                             *)
(***************************************************************************)
\* the step is a Reset, or the selection of a .csv file
ResetOrPick == (csvData # NULL /\ csvData' = NULL) \/ picks' > picks

\* what apply t captured at its start
Captured(t) == <<t.csvData, t.file, t.conflicts, t.dataObjects, t.itemsToProcess>>

C13_ApplyRunsToCompletion ==
  /\ [](\A n \in 1..Len(applies) :
          /\ applies[n].dataObjects = IndexedObjects(applies[n].csvData)
          /\ applies[n].itemsToProcess =
               ItemsToProcess(applies[n].dataObjects, applies[n].conflicts)
          /\ Len(applies[n].itemsToProcess) =
               Cardinality(RowNumbers(applies[n]) \ SkippedRows(applies[n]))
          /\ applies[n].k <= Len(applies[n].itemsToProcess))
  /\ [][ /\ ResetOrPick => applies' = applies
         /\ \A n \in 1..Len(applies) :
              /\ \/ /\ Len(applies') >= Len(applies)
                    /\ Captured(applies'[n]) = Captured(applies[n])
                    /\ applies'[n].k \in {applies[n].k, applies[n].k + 1}
                 \/ \E m \in 1..Len(applies) :
                      /\ Finished(m)
                      /\ applies[m].k = Len(applies[m].itemsToProcess)
                      /\ applies[m].pc = "row"
              /\ Published(n) =>
                   /\ uploadResult'.total = Len(applies[n].dataObjects)
                   /\ uploadResult'.success + Len(uploadResult'.errors)
                        = Len(applies[n].itemsToProcess)
                   /\ \A e \in 1..Len(uploadResult'.errors) :
                        \E j \in 1..Len(applies[n].itemsToProcess) :
                          uploadResult'.errors[e].row
                            = applies[n].itemsToProcess[j]["originalRowIndex"]
       ]_vars

\* a result published after a Reset during processing
C13_Witness ==
  /\ uploadResult # NULL
  /\ csvData = NULL
  /\ file = NULL
  /\ uploadResult.total = 2
  /\ uploadResult.success + Len(uploadResult.errors) > 0
  /\ applies = <<>>

(***************************************************************************)
(* C14: at most one apply is in progress at any time; while one is, the    *)
(* component is processing and the conflict dialog is closed, so neither   *)
(* the Upload button nor Proceed starts a second one.                      *)
(***************************************************************************)
C14_AtMostOneApply ==
  /\ Len(applies) <= 1
  /\ (applies # <<>>) => (isProcessing /\ ~showConflictDialog)

\* an apply is in progress while the upload panel shows its disabled button
C14_Witness ==
  /\ Len(applies) = 1
  /\ applies[1].k > 0
  /\ UploadPanelShown
  /\ isProcessing

(***************************************************************************)
(* C20: every item_master record the import writes, by insert or by        *)
(* update, for a file that passed row validation (stated for the applies   *)
(* started from the conflict review, after the file's conflict detection, *)
(* in runs without a failed remote call) has status active or inactive.    *)
(* Violated: validation compares the lower-cased status, the write stores  *)
(* the cell as it is, so 'Active' is stored.                               *)
(***************************************************************************)
C20_WrittenStatusIsCanonical ==
  [][ \A n \in 1..Len(applies) :
        ( /\ Len(applies') = Len(applies)
          /\ applies'[n] # applies[n]
          /\ applies[n].detected
          /\ applies[n].conflicts # <<>>
          /\ faults' = 0
          /\ PassesValidation(applies[n].csvData) ) =>
          \A i \in 1..Len(item_master') :
            (i > Len(item_master) \/ item_master'[i] # item_master[i]) =>
              item_master'[i].status \in {"active", "inactive"}
    ]_vars

(***************************************************************************)
(* Vocabulary of the stock properties.                                     *)
(***************************************************************************)
\* the quantities the first k records of a log hold for an item code
RECURSIVE ReceivedUpTo(_, _)
ReceivedUpTo(code, k) ==
  IF k = 0 THEN 0
  ELSE ReceivedUpTo(code, k - 1) +
       (IF grn_log[k].item_code = code THEN grn_log[k].qty_received ELSE 0)

RECURSIVE IssuedUpTo(_, _, _)
IssuedUpTo(code, since, k) ==
  IF k = 0 THEN 0
  ELSE IssuedUpTo(code, since, k - 1) +
       (IF issue_log[k].item_code = code /\ issue_log[k].created_at >= since
          THEN issue_log[k].qty_issued ELSE 0)

Received(code) == ReceivedUpTo(code, Len(grn_log))

Issued(code) == IssuedUpTo(code, 0, Len(issue_log))

IssuedInWindow(code, W) == IssuedUpTo(code, today - W, Len(issue_log))

\* the issue total and the days of cover a summary row reports for a window
IssueOf(r, W) ==
  CASE W = 7 -> r.issue_7d [] W = 30 -> r.issue_30d [] W = 90 -> r.issue_90d

CoverOf(r, W) ==
  CASE W = 7 -> r.days_of_cover_7d [] W = 30 -> r.days_of_cover
    [] W = 90 -> r.days_of_cover_90d

RateOf(r, W) ==
  CASE W = 7 -> r.consumption_rate_7d [] W = 30 -> r.consumption_rate_30d
    [] W = 90 -> r.consumption_rate_90d

Windows == {7, 30, 90}

(***************************************************************************)
(* C15: whenever no creation and no opening-stock import is in flight, the *)
(* stock summary has exactly one row for every item_master record.         *)
(* Violated: the view selects FROM stock, and createItemMutation (like     *)
(* executeUpload, see C9) does not look at the result of the stock insert, *)
(* so an item whose stock insert failed has no row.                        *)
(***************************************************************************)
C15_OneSummaryRowPerItem ==
  (jobs = <<>>) =>
    \A j \in 1..Len(item_master) :
      Cardinality({r \in stock_summary : r.item_code = item_master[j].item_code}) = 1

(***************************************************************************)
(* C16: in every summary row calculated_qty = opening_qty + total received *)
(* - total issued (0 without records), the status is MISMATCH exactly when *)
(* calculated_qty and current_qty differ by more than 0.01 and OK          *)
(* otherwise; a row without receipts and issues whose current_qty is its   *)
(* opening_qty is OK.                                                      *)
(***************************************************************************)
C16_CalculatedQtyAndStatus ==
  \A r \in stock_summary :
    /\ r.total_grn_qty = Received(r.item_code)
    /\ r.total_issued_qty = Issued(r.item_code)
    /\ r.calculated_qty = r.opening_qty + Received(r.item_code) - Issued(r.item_code)
    /\ r.stock_validation_status \in {"MISMATCH", "OK"}
    /\ (r.stock_validation_status = "MISMATCH") <=>
         (100 * r.calculated_qty - 100 * r.current_qty > 1
          \/ 100 * r.current_qty - 100 * r.calculated_qty > 1)
    /\ ( /\ ~\E k \in 1..Len(grn_log) : grn_log[k].item_code = r.item_code
         /\ ~\E k \in 1..Len(issue_log) : issue_log[k].item_code = r.item_code
         /\ r.current_qty = r.opening_qty ) => r.stock_validation_status = "OK"

\* a row with a receipt and an issue whose balance was then overwritten
C16_Witness ==
  \E r \in stock_summary :
    /\ r.total_grn_qty > 0
    /\ r.total_issued_qty > 0
    /\ r.stock_validation_status = "MISMATCH"

(***************************************************************************)
(* C17: for each of the windows 7, 30 and 90 days, a row without issues in *)
(* the window has days of cover 999999 when current_qty > 0 and 0          *)
(* otherwise; days_of_cover is what the rule gives for the 30-day window.  *)
(***************************************************************************)
C17_SentinelWithoutIssues ==
  \A r \in stock_summary :
    /\ \A W \in Windows :
         /\ IssueOf(r, W) = IssuedInWindow(r.item_code, W)
         /\ (IssueOf(r, W) = 0) =>
              CoverOf(r, W) = IF r.current_qty > 0 THEN Tenths(Sentinel) ELSE 0
    /\ r.days_of_cover =
         IF IssuedInWindow(r.item_code, 30) > 0
           THEN RoundDiv(10 * r.current_qty * 30, IssuedInWindow(r.item_code, 30))
           ELSE IF r.current_qty > 0 THEN Tenths(Sentinel) ELSE 0

\* stock in hand, issued within the last 30 days but not within the last 7
C17_Witness ==
  \E r \in stock_summary :
    /\ r.current_qty > 0
    /\ r.issue_7d = 0
    /\ r.issue_30d > 0
    /\ r.days_of_cover_7d = Tenths(Sentinel)
    /\ r.days_of_cover # Tenths(Sentinel)

(***************************************************************************)
(* C18 as stated: with issues in the window, the days of cover are         *)
(* current_qty divided by the reported rate (issue_W / W rounded to 3      *)
(* decimals), rounded to 1 decimal.  Violated: the view divides by the     *)
(* rate before it is rounded.                                              *)
(***************************************************************************)
C18_CoverByRoundedRate ==
  \A r \in stock_summary :
    \A W \in Windows :
      (IssueOf(r, W) > 0) =>
        /\ RateOf(r, W) = RoundDiv(1000 * IssueOf(r, W), W)
        /\ CoverOf(r, W) = RoundDiv(10 * 1000 * r.current_qty, RateOf(r, W))

\* opening 100, one receipt of 50, one issue of 30 five days ago, current 120
C18_Example(r) ==
  /\ r.opening_qty = 100
  /\ r.total_grn_qty = 50
  /\ r.total_issued_qty = 30
  /\ r.issue_7d = 30
  /\ r.current_qty = 120
  /\ \E k \in 1..Len(issue_log) :
       issue_log[k].item_code = r.item_code /\ issue_log[k].created_at = today - 5

(* C18 as amended: with issues in the window, the days of cover are        *)
(* current_qty / (issue_W / W) rounded to 1 decimal, the rate not rounded; *)
(* the reported rate is issue_W / W rounded to 3 decimals; in the example  *)
(* the 7-day rate is 4.286 and the 7-day cover 28.0.                       *)
C18_CoverByExactRate ==
  \A r \in stock_summary :
    /\ \A W \in Windows :
         /\ IssueOf(r, W) = IssuedInWindow(r.item_code, W)
         /\ (IssueOf(r, W) > 0) =>
              /\ RateOf(r, W) = RoundDiv(1000 * IssueOf(r, W), W)
              /\ CoverOf(r, W) = RoundDiv(10 * r.current_qty * W, IssueOf(r, W))
    /\ C18_Example(r) =>
         /\ r.consumption_rate_7d = 4286
         /\ r.days_of_cover_7d = 280

C18_Witness ==
  \E r \in stock_summary :
    /\ C18_Example(r)
    /\ r.days_of_cover_90d = 3600
    /\ r.consumption_rate_90d = 333

(***************************************************************************)
(* C19: the step that accepts an issue of q lowers current_qty of the      *)
(* item's stock records by q, the step that accepts a receipt of q raises  *)
(* it by q, no other stock record changes, and a stock record whose        *)
(* validation status was OK before the step is OK after it.                *)
(***************************************************************************)
MovedBy(code, delta) ==
  /\ Len(stock') = Len(stock)
  /\ \A k \in 1..Len(stock) :
       /\ stock'[k] = IF stock[k].item_code = code
                        THEN [stock[k] EXCEPT !.current_qty = @ + delta]
                        ELSE stock[k]
       /\ (stock[k].item_code = code /\ stock_validation_status(stock[k]) = "OK") =>
            (stock_validation_status(stock[k]))' = "OK"

NoSharedCode(table) ==
  \A i, j \in 1..Len(table) : (i # j) => table[i].item_code # table[j].item_code

DistinctIgnoringCase(table) ==
  \A i, j \in 1..Len(table) :
    (i # j) => toLowerCase(table[i].category_name) # toLowerCase(table[j].category_name)

C22_CategoryNamesStayDistinct ==
  /\ []DistinctIgnoringCase(categories_table)
  /\ [][ (Len(categories_table') > Len(categories_table)) =>
           \A i \in 1..Len(categories_table) :
             toLowerCase(categories_table[i].category_name)
               # toLowerCase(categories_table'[Len(categories_table')].category_name)
       ]_vars

(***************************************************************************)
(* C23: when the opening-stock import counts a row as a success, the stock *)
(* record of the row's item_code has opening_qty and current_qty both      *)
(* equal to the row's parsed opening_qty (0 when it does not parse),       *)
(* whatever they were before, and item_master has a record of that code    *)
(* with status active.                                                     *)
(***************************************************************************)
\* the step counts the row the job n is at
CountsRow(n) ==
  /\ n \in 1..Len(jobs) /\ jobs[n].kind = "opening"
  /\ Len(jobs') = Len(jobs)
  /\ jobs'[n].results.success = jobs[n].results.success + 1

C23_CountedRowHasOpeningStock ==
  [][ \A n \in 1..Len(jobs) :
        CountsRow(n) =>
          LET row == jobs[n].data[jobs[n].i]
              qty == OpeningQty(row.opening_qty)
          IN /\ \E k \in 1..Len(stock') : stock'[k].item_code = row.item_code
             /\ \A k \in 1..Len(stock') :
                  (stock'[k].item_code = row.item_code) =>
                    (stock'[k].opening_qty = qty /\ stock'[k].current_qty = qty)
             /\ \E k \in 1..Len(item_master') :
                  /\ item_master'[k].item_code = row.item_code
                  /\ item_master'[k].status = "active"
    ]_vars

\* an import counted the row of an item whose balance a receipt had moved
C23_Witness ==
  \E n \in 1..Len(jobs) :
    /\ jobs[n].kind = "opening" /\ jobs[n].pc = "return"
    /\ jobs[n].results.success = 1
    /\ jobs[n].data[1].item_code = ExistingCode
    /\ grn_log # <<>>
    /\ \E k \in 1..Len(stock) :
         /\ stock[k].item_code = ExistingCode
         /\ stock[k].opening_qty = 100 /\ stock[k].current_qty = 100

(***************************************************************************)
(* C24: row validation reports every violated rule of a row, not only the  *)
(* first, one error each, with row = zero-based index + 2; the row         *)
(* {item_name: "", category_name: "Raw Materials", uom: "PCS"} yields      *)
(* exactly one error, for item_name.                                       *)
(***************************************************************************)
ValidatedFields == {"item_name", "category_name", "uom", "gsm", "status"}

\* the rule of a field, as the claim words it
RuleViolated(row, field) ==
  LET v == Get(row, field)
  IN CASE field = "item_name" -> v \in {"", UNDEF}
       [] field = "category_name" ->
            \/ v \in {"", UNDEF}
            \/ ~\E i \in 1..Len(categories) :
                 toLowerCase(categories[i].category_name) = toLowerCase(v)
       [] field = "uom" -> v \in {"", UNDEF}
       [] field = "gsm" -> v \notin {"", UNDEF} /\ parseFloat(v) = "NaN"
       [] field = "status" ->
            v \notin {"", UNDEF} /\ toLowerCase(v) \notin {"active", "inactive"}

\* the errors a list holds for a row number and a field
ErrorsFor(errors, row, field) ==
  {k \in 1..Len(errors) : errors[k].row = row /\ errors[k].field = field}

\* the step is the onload of a file that parses and has every required header
Validates(f) ==
  /\ f \in readers /\ f \notin readers'
  /\ ~ParseFails(f)
  /\ HeadersComplete(parseCSV(f))

C24_EveryViolationReported ==
  [][ \A f \in readers :
        Validates(f) =>
          LET rows == DataObjects(parseCSV(f))
          IN /\ \A i \in 1..Len(rows), field \in ValidatedFields :
                  Cardinality(ErrorsFor(validationErrors', (i - 1) + 2, field))
                    = IF RuleViolated(rows[i], field) THEN 1 ELSE 0
             /\ \A k \in 1..Len(validationErrors') :
                  /\ validationErrors'[k].row \in {(i - 1) + 2 : i \in 1..Len(rows)}
                  /\ validationErrors'[k].field \in ValidatedFields
             /\ \A i \in 1..Len(rows) :
                  ( /\ Get(rows[i], "item_name") = ""
                    /\ Get(rows[i], "category_name") = "Raw Materials"
                    /\ Get(rows[i], "uom") = "PCS"
                    /\ ~Truthy(Get(rows[i], "gsm")) /\ ~Truthy(Get(rows[i], "status")) ) =>
                    \A k \in 1..Len(validationErrors') :
                      (validationErrors'[k].row = (i - 1) + 2) =>
                        /\ validationErrors'[k].field = "item_name"
                        /\ \A j \in 1..Len(validationErrors') :
                             (validationErrors'[j].row = (i - 1) + 2) => j = k
    ]_vars

\* the second row of a file broke all five rules: five errors, all of row 3
C24_Witness ==
  /\ Len(validationErrors) = 5
  /\ \A k \in 1..5 : validationErrors[k].row = 3
  /\ {validationErrors[k].field : k \in 1..5} = ValidatedFields

(***************************************************************************)
(* C25: the conflict set an apply uses holds only conflicts derived from   *)
(* the rows of the file it applies, and the result of a detection started  *)
(* for a file that is no longer the loaded one never becomes the current   *)
(* conflict set.  Violated: the onload that awaited checkForConflicts      *)
(* calls setConflicts whatever file has been loaded in the meantime.       *)
(***************************************************************************)
\* the conflict is the one checkForConflicts registers for a row of csv
DerivedFrom(c, csv) ==
  LET rows == DataObjects(csv)
  IN /\ c.row - 1 \in 1..Len(rows)
     /\ DOMAIN c.data = DOMAIN rows[c.row - 1] \cup {"generated_code"}
     /\ \A k \in DOMAIN rows[c.row - 1] : c.data[k] = rows[c.row - 1][k]

C25_ConflictsBelongToTheFile ==
  [][ /\ (Len(applies') > Len(applies)) =>
           \A k \in 1..Len(applies'[Len(applies')].conflicts) :
             DerivedFrom(applies'[Len(applies')].conflicts[k],
                         applies'[Len(applies')].csvData)
      /\ \A n \in 1..Len(detections) :
           ( /\ ~detections[n].current
             /\ csvData # NULL
             /\ DataObjects(csvData) # detections[n].data
             /\ Len(detections') < Len(detections)
             /\ \A m \in 1..Len(detections') :
                  detections'[m] = detections[IF m < n THEN m ELSE m + 1] ) =>
             conflicts' = conflicts
    ]_vars

(***************************************************************************)
(* C26: during an apply with N > 0 rows to process, the progress set after *)
(* the k-th batch is round(100 * min(10k, N) / N); it is set only by the   *)
(* step that handles the last row of a batch, never to less than it was,   *)
(* and to 100 after the last batch.                                        *)
(***************************************************************************)
Min(a, b) == IF a <= b THEN a ELSE b

\* the step is one of apply n, which stays in flight
ApplyStep(n) ==
  /\ n \in 1..Len(applies)
  /\ Len(applies') = Len(applies)
  /\ applies'[n] # applies[n]

HandledRows(t) == {t.itemsToProcess[j]["originalRowIndex"] : j \in 1..t.k}

C27_EveryRowCountedOnce ==
  /\ [](\A n \in 1..Len(applies) :
          LET t == applies[n]
          IN /\ t.totalSuccess + Len(t.allErrors) = t.k
             /\ \A e \in 1..Len(t.allErrors) : t.allErrors[e].row \in HandledRows(t)
             /\ \A e, g \in 1..Len(t.allErrors) :
                  (t.allErrors[e].row = t.allErrors[g].row) => e = g)
  /\ [][ \A n \in 1..Len(applies) :
           Finished(n) =>
             LET t == applies[n]
                 notSkipped == RowNumbers(t) \ SkippedRows(t)
             IN /\ HandledRows(t) = notSkipped
                /\ t.totalSuccess + Len(t.allErrors) = Cardinality(notSkipped)
                /\ Published(n) =>
                     /\ uploadResult'.success = t.totalSuccess
                     /\ uploadResult'.errors = t.allErrors
                     /\ uploadResult'.total = Len(t.csvData.rows)
       ]_vars

\* a report over two rows, one skipped and one that failed
C27_Witness ==
  /\ uploadResult # NULL
  /\ uploadResult.total = 2
  /\ uploadResult.success = 0
  /\ Len(uploadResult.errors) = 1

(***************************************************************************)
(* C28: a conflicting row whose chosen action is "error" is handled like a *)
(* row without a conflict: apply attempts the insert of the derived code   *)
(* and never updates the existing record.  As stated, the row yields an    *)
(* error entry only when the datastore rejects that insert; that part      *)
(* fails, since the code generation of the row can fail before any insert  *)
(* is attempted.                                                           *)
(***************************************************************************)
\* apply n is at a row whose conflict says "error", and the step is its own
ErrorRowStep(n) ==
  /\ n \in 1..Len(applies)
  /\ applies[n].pc = "row"
  /\ applies[n].k < Len(applies[n].itemsToProcess)
  /\ ActionOf(applies[n].conflicts, RowOf(n)["originalRowIndex"]) = "error"
  /\ FindCategory(Get(RowOf(n), "category_name")) # NULL
  /\ ApplyStep(n)

\* the entry the step adds for the row, if it adds one
AddedError(n) == applies'[n].allErrors[Len(applies'[n].allErrors)]

AddsError(n) == Len(applies'[n].allErrors) > Len(applies[n].allErrors)

C29_ApplyTerminates ==
  /\ isProcessing ~> ~isProcessing
  /\ (Len(applies) > 0) ~> (Len(applies) = 0)
  /\ [][ /\ (isProcessing /\ ~isProcessing') => \E n \in 1..Len(applies) : Finished(n)
         /\ \A n \in 1..Len(applies) :
              Finished(n) =>
                /\ ~isProcessing'
                /\ \/ /\ lastToast' = "Upload Complete"
                      /\ uploadResult' = [success |-> applies[n].totalSuccess,
                                          errors |-> applies[n].allErrors,
                                          total |-> Len(applies[n].dataObjects)]
                   \/ /\ lastToast' = "Upload Failed"
                      /\ uploadResult' = uploadResult
       ]_vars

\* an apply has ended in the failure toast, and processing is over
C29_Witness ==
  /\ lastToast = "Upload Failed"
  /\ ~isProcessing
  /\ applies = <<>>
  /\ faults > 0

(***************************************************************************)
(* C30: in the integration settings every enabled integration is           *)
(* configured, whatever toggles, key saves, connection tests and key edits *)
(* were made; a toggle of an integration that is neither configured nor    *)
(* enabled leaves the integrations as they are.                            *)
(***************************************************************************)
C30_EnabledImpliesConfigured ==
  /\ [](\A i \in 1..Len(integrations) :
          integrations[i].enabled => integrations[i].configured)
  /\ [][ \A i \in 1..Len(integrations) :
           ( /\ HandleToggleIntegration(i)
             /\ ~integrations[i].configured
             /\ ~integrations[i].enabled ) =>
             /\ integrations' = integrations
             /\ settingsToast' = <<"Configuration Required">>
       ]_vars

\* the first integration was configured and enabled, the toggle of the second refused
C30_Witness ==
  /\ integrations[1].enabled /\ integrations[1].configured
  /\ ~integrations[2].configured /\ ~integrations[2].enabled
  /\ settingsToast = <<"Configuration Required">>

====
